---- MODULE Spec2Model ----
(***************************************************************************)
(* The DFU 1.1 and DfuSe engines of webdfu, driven against a USB device    *)
(* whose replies are nondeterministic.  Every transport call               *)
(* (controlTransferIn / controlTransferOut / reset) is one step and is     *)
(* appended to log together with what the device answered.                 *)
(*                                                                         *)
(* The repository carries the engine more than once.  impl selects it:     *)
(*   "WebDFU"    src/unnamed/part_002 (class WebDFU); src/dfu.ts (class    *)
(*               DFU) issues the same transport calls                      *)
(*   "DriverDFU" src/dfu.driver.ts (class DriverDFU); in the DfuSe         *)
(*               operations the class DriverDFU of src/unnamed/part_008;   *)
(*               in connect the class WebDFU of src/unnamed/part_003,      *)
(*               which delegates to a driver                               *)
(*   "DFU"       src/dfu.ts (class DFU), where waitDisconnected differs    *)
(*   "Legacy"    src/unnamed/part_003, the class WebDFU that keeps a DFU   *)
(*               object in this.dfu (session lifecycle only)               *)
(*                                                                         *)
(* One specification per operation, over the same variables:               *)
(*   SpecWrite do_write          SpecRead do_read, ending with abortToIdle *)
(*   SpecErase erase             SpecDfuseWrite do_dfuse_write             *)
(*   SpecDfuseRead do_dfuse_read SpecConnect connect, then read / write    *)
(*   SpecWait waitDisconnected   SpecPoll poll_until                       *)
(*   SpecMemory parseMemoryDescriptor                                      *)
(*   SpecSubDescriptors parseSubDescriptors                                *)
(*   SpecProperties getDFUDescriptorProperties                             *)
(*   SpecOpen open               SpecProcess read() / write() processes    *)
(*   SpecEraseExample erase over the map of the documentation              *)
(*   SpecEraseGap erase over maps with an unmapped address                 *)
(***************************************************************************)
EXTENDS Integers, Sequences, FiniteSets, TLC

VARIABLES impl, op, pc, ret, result, err,
          xfer_size, expected_size, manifestationTolerant, max_size, first_block,
          bytes_sent, transaction, bytes_written, dfu_status,
          bytes_read, bytes_to_read, byteLength, state, log, sleeps, shorts,
          dfuseMemoryInfo, segments, dfuseStartAddress,
          startAddress, address, segment, addr, endAddr, bytesErased, bytesToErase, progress,
          descriptor, interfaceProtocol, intrf, currentInterfaceSettings, properties, driver, engine,
          alternate, name, opened, claimed, plugged, events, calls,
          desc, configurations, configurationValue, remainingData, descriptors,
          timeout, connected, disconnected, timeoutID, listener, promise, elapsed,
          device, settings, process, returned

vars == <<impl, op, pc, ret, result, err,
          xfer_size, expected_size, manifestationTolerant, max_size, first_block,
          bytes_sent, transaction, bytes_written, dfu_status,
          bytes_read, bytes_to_read, byteLength, state, log, sleeps, shorts,
          dfuseMemoryInfo, segments, dfuseStartAddress,
          startAddress, address, segment, addr, endAddr, bytesErased, bytesToErase, progress,
          descriptor, interfaceProtocol, intrf, currentInterfaceSettings, properties, driver, engine,
          alternate, name, opened, claimed, plugged, events, calls,
          desc, configurations, configurationValue, remainingData, descriptors,
          timeout, connected, disconnected, timeoutID, listener, promise, elapsed,
          device, settings, process, returned>>

inputs == <<impl, op, xfer_size, expected_size, manifestationTolerant, max_size, first_block>>
writeLocals == <<bytes_sent, transaction, bytes_written>>
readLocals == <<bytes_read, bytes_to_read, byteLength, state>>
\* the DfuSe memory map and start address of the device object, and the locals
\* of do_dfuse_write, do_dfuse_read and erase
dfuseInputs == <<dfuseMemoryInfo, segments, dfuseStartAddress>>
\* the locals of erase behind its progress events, and the (done, total)
\* pairs of the "process" events it has emitted
eraseVars == <<bytesErased, bytesToErase, progress>>
dfuseLocals == <<startAddress, address, segment, addr, endAddr, eraseVars>>
dfuseVars == <<dfuseInputs, dfuseLocals>>
\* what connect(interfaceIndex) finds on the device and what it leaves in the session
\* what the descriptor parsers are handed and what they build: the interface
\* name, the configuration descriptors of the device in the order of their
\* index, the selected configuration, the bytes parseSubDescriptors has still
\* to walk and the records it has pushed
descriptorVars == <<desc, configurations, configurationValue, remainingData, descriptors>>
sessionVars == <<descriptor, interfaceProtocol, intrf, currentInterfaceSettings, properties, driver, engine,
                 alternate, name, opened, claimed, plugged, events, calls, descriptorVars>>
\* waitDisconnected(timeout): its argument, the flags of the device object, the
\* timer, the "disconnect" listener, the promise it returned and the time
\* elapsed since the call
waitVars == <<timeout, connected, disconnected, timeoutID, listener, promise, elapsed>>
\* open(): the USB device (its selected configuration and the interfaces of
\* that configuration) and the interface settings the session was given
openVars == <<device, settings>>
\* the events emitted on the process object read() or write() hands out, each
\* with whether the caller already held the object (heard), and whether the
\* call has returned
processVars == <<process, returned>>

(* ----------------------------- bounds ---------------------------------- *)
\* most sleeps of one poll_until, and the largest bwPollTimeout a report carries
MaxPolls == 2
MaxPollTimeout == 2
\* most progress events of an erase that are followed over a map with a gap
MaxGapEvents == 5
\* most events of one read() or write() process while a loop of its engine may repeat
MaxProcessEvents == 5
\* most calls of open() that are followed, and the largest bConfigurationValue
MaxOpens == 2
MaxConfigurationValue == 2
\* longest data buffer handed to do_write
MaxData == 3
\* largest transfer size
MaxXfer == 2
\* largest finite max_size handed to do_read
MaxSize == 3
\* sleeps between polls the model follows in one operation (a device that stays busy never ends poll_until)
MaxSleeps == 2
\* DNLOADs of one do_write of which the device accepts fewer bytes than sent
\* (a device accepting 0 bytes never ends the chunk loop)
MaxShort == 1
\* UPLOAD requests one do_read may issue (max_size = Infinity never ends on full blocks)
MaxUploads == 4
\* longest data buffer handed to do_dfuse_write
MaxDfuseData == 1
\* sleeps between polls the model follows in one DfuSe operation
MaxDfuseSleeps == 1
\* segments of the longest DfuSe memory map
MaxSegments == 2
\* most bytes one erase(startAddr, length) is asked to cover
MaxErase == 3
\* longest timeout handed to waitDisconnected
MaxTimeout == 2
\* time the model follows after waitDisconnected was called
MaxTime == 3
\* "disconnect" events the transport reports during one waitDisconnected
MaxEvents == 2
\* connect and close calls on one session
MaxCalls == 2
\* /<address>/ blocks of the longest descriptor string, and runs of one block
MaxBlocks == 2
MaxRuns == 1
\* configurations of a device, and DFU functional descriptors of one configuration
MaxConfigurations == 2
MaxFunctional == 2
\* bytes of the longest buffer handed to parseSubDescriptors
MaxBuffer == 5
\* records parseSubDescriptors is followed for (a record of bLength 0 never ends the walk)
MaxDescriptors == 3

(* --------------------------- dfuCommands ------------------------------- *)
dfuIDLE == 2
dfuDNBUSY == 4
dfuDOWNLOAD_IDLE == 5
dfuMANIFEST == 7
dfuMANIFEST_WAIT_RESET == 8
dfuERROR == 10
STATUS_OK == 0

\* max_size = Infinity (the default of do_read), kept apart from every byte count
Infinity == -1

Impls == {"WebDFU", "DriverDFU"}

\* states a device reports in GET_STATUS / GETSTATE replies
ReportStates == {dfuIDLE, dfuDNBUSY, dfuDOWNLOAD_IDLE, dfuMANIFEST_WAIT_RESET, dfuERROR}
\* bStatus values: OK and one error code (errTARGET)
ReportStatuses == {STATUS_OK, 1}
Reports == [status : ReportStatuses, state : ReportStates]

\* String(error) of the failures the transport produces
DeviceUnavailable == "NotFoundError: Device unavailable."
DeviceDisconnected == "NotFoundError: The device was disconnected."
UnableToReset == "NetworkError: Unable to reset the device."
TransferError == "NetworkError: A transfer error has occurred."
TransportErrors == {DeviceUnavailable, DeviceDisconnected, UnableToReset, TransferError}
\* what a rejected promise carries: WebUSB rejects with a DOMException object,
\* a transport shim may reject with the bare message string
ErrorForms == {"DOMException", "string"}

Min(a, b) == IF a <= b THEN a ELSE b

\* one transport call as the device saw it, with its outcome: res is the
\* bytesWritten of a DNLOAD or the byteLength of an UPLOAD reply (0 for the
\* other requests), Failed when the call threw; error is then String(error)
Call(req, block, len, res) ==
    [req |-> req, block |-> block, len |-> len, res |-> res, error |-> "none", form |-> "none"]
Failed == -1
Thrown(req, block, len, e, f) ==
    [req |-> req, block |-> block, len |-> len, res |-> Failed, error |-> e, form |-> f]

\* failures of controlTransferIn / controlTransferOut: the call throws, or it
\* returns with result.status "stall" instead of "ok"
ControlFailures == TransportErrors \cup {"stall"}

NoStatus == [status |-> STATUS_OK, state |-> dfuIDLE]

(* --------------------------- DfuSe memory ------------------------------ *)
\* DFUseCommands
SET_ADDRESS == 33
ERASE_SECTOR == 65

\* dfuseStartAddress: number = NaN until the caller sets it
NaN == -2
\* segments[0]?.start of an empty memory map
undefined == -3
\* getDfuseSegment found no segment; segment holds the position in segments otherwise
null == 0

\* !x for x a number or undefined
Falsy(x) == x = 0 \/ x = NaN \/ x = undefined

\* sector sizes, sector counts and first addresses of the memory maps followed
SectorSizes == {1, 2}
SectorCounts == {1, 2}
Bases == {0, 1}
Shapes == [sectorSize : SectorSizes, sectorCount : SectorCounts, erasable : BOOLEAN]

\* the segments parseDfuSeMemoryDescriptor pushes for one contiguous group that
\* starts at a: each segment starts where the one before it ends
RECURSIVE ParsedSegments(_, _)
ParsedSegments(a, shapes) ==
    IF shapes = <<>> THEN <<>>
    ELSE LET sh == Head(shapes) IN
         <<[start |-> a, sectorSize |-> sh.sectorSize,
            end |-> a + sh.sectorSize * sh.sectorCount, erasable |-> sh.erasable]>>
         \o ParsedSegments(a + sh.sectorSize * sh.sectorCount, Tail(shapes))

MemoryMaps(n) == {ParsedSegments(b, sh) : b \in Bases, sh \in UNION {[1..k -> Shapes] : k \in 0..n}}

\* a descriptor string cut into what the parser looks at: whether it starts
\* with "@" (at), whether it holds a "/" (slash), and the /<address>/<runs>
\* blocks in the order of the string; each run is <count>*<size><unit><type>
Block(base, runs) == [base |-> base, runs |-> runs]

\* the segments pushed over all matches of contiguousSegmentRegex: a block
\* without a run is no match, and no block is compared with the one before it
RECURSIVE ParsedBlocks(_)
ParsedBlocks(blocks) ==
    IF blocks = <<>> THEN <<>>
    ELSE ParsedSegments(Head(blocks).base, Head(blocks).runs) \o ParsedBlocks(Tail(blocks))

\* !desc.startsWith("@") || nameEndIndex == -1
NotDfuSe(d) == ~d.at \/ ~d.slash

\* the segments of the map parseMemoryDescriptor(desc) returns when it does not throw
parseMemoryDescriptor(d) == ParsedBlocks(d.blocks)

\* one past the last address of a memory map
MapEnd(m) == IF m = <<>> THEN 0 ELSE m[Len(m)].end

\* for (let segment of segments) if (segment.start <= addr && addr < segment.end) return segment
getDfuseSegment(a) ==
    LET hits == {i \in 1..Len(segments) : segments[i].start <= a /\ a < segments[i].end} IN
    IF hits = {} THEN null ELSE CHOOSE i \in hits : \A j \in hits : i <= j

\* segment.start + Math.floor((addr - segment.start) / segment.sectorSize) * segment.sectorSize
getDfuseSectorStart(a, seg) ==
    segments[seg].start + ((a - segments[seg].start) \div segments[seg].sectorSize) * segments[seg].sectorSize

\* the end of the sector after the one holding addr
getDfuseSectorEnd_NextSector(a, seg) ==
    segments[seg].start + ((a - segments[seg].start) \div segments[seg].sectorSize + 2) * segments[seg].sectorSize

\* segment.start + (sectorIndex + 1) * segment.sectorSize
getDfuseSectorEnd(a, seg) ==
    segments[seg].start + ((a - segments[seg].start) \div segments[seg].sectorSize + 1) * segments[seg].sectorSize

\* segment?.end ?? 0
SegmentEnd(seg) == IF seg = null THEN 0 ELSE segments[seg].end
\* segment?.erasable
Erasable(seg) == seg # null /\ segments[seg].erasable

\* a dfuseCommand as the device saw it: a DNLOAD of block 0 whose payload is
\* the command byte and the 4 bytes of param
Command(command, param) ==
    [req |-> "DNLOAD", block |-> 0, len |-> 5, res |-> 5, error |-> "none", form |-> "none",
     command |-> command, param |-> param]
ThrownCommand(command, param, e) ==
    [req |-> "DNLOAD", block |-> 0, len |-> 5, res |-> Failed, error |-> e, form |-> "n/a",
     command |-> command, param |-> param]

\* failures of the control transfers of a DfuSe operation that are followed: one
\* thrown error and the stall
DfuseFailures == {TransferError, "stall"}

\* GET_STATUS replies of a DfuSe device: dfuMANIFEST is reported after the commit
DfuseReports == [status : ReportStatuses, state : ReportStates \cup {dfuMANIFEST}]

\* a session that has not connected: properties and driver are unset
NoSelection ==
    /\ descriptor = null /\ interfaceProtocol = 0 /\ intrf = FALSE
    /\ currentInterfaceSettings = FALSE
    /\ properties = undefined /\ driver = "none" /\ engine = "none"
    /\ alternate = 0 /\ name = 0
    /\ claimed = FALSE /\ plugged = TRUE /\ events = <<>> /\ calls = 0
    /\ device = [layout |-> <<>>, configuration |-> 0, interfaces |-> <<>>]
    /\ settings = [configurationValue |-> 0, interfaceNumber |-> 0, alternateSetting |-> 0]
    /\ process = <<>> /\ returned = FALSE
\* no descriptor under the parsers
NoDescriptors ==
    /\ desc = [at |-> FALSE, slash |-> FALSE, blocks |-> <<>>]
    /\ configurations = <<>> /\ configurationValue = 0
    /\ remainingData = <<>> /\ descriptors = <<>>
NoSession == NoSelection /\ NoDescriptors /\ opened = FALSE
\* no waitDisconnected under way: connected = false as constructed
NoWait ==
    /\ timeout = 0 /\ connected = FALSE /\ disconnected = FALSE
    /\ timeoutID = "unset" /\ listener = FALSE /\ promise = "none"
    /\ elapsed = 0

\* a device object without memory map, as constructed
NoDfuse == dfuseMemoryInfo = FALSE /\ segments = <<>> /\ dfuseStartAddress = NaN
NoDfuseLocals ==
    /\ startAddress = undefined /\ address = 0 /\ segment = null /\ addr = 0 /\ endAddr = 0
    /\ bytesErased = 0 /\ bytesToErase = 0 /\ progress = <<>>

(* ------------------------------ Init ----------------------------------- *)
InitLocals ==
    /\ ret = "none" /\ result = "running" /\ err = "none"
    /\ bytes_sent = 0 /\ transaction = 0 /\ bytes_written = 0
    /\ dfu_status = NoStatus /\ sleeps = 0 /\ shorts = 0
    /\ bytes_read = 0 /\ bytes_to_read = 0 /\ byteLength = 0 /\ state = dfuIDLE
    /\ log = <<>>

\* do_write(xfer_size, data, manifestationTolerant) has just been called
InitWrite ==
    /\ impl \in Impls
    /\ op = "write" /\ pc = "w_loop"
    /\ xfer_size \in 1..MaxXfer
    /\ expected_size \in 0..MaxData
    /\ manifestationTolerant \in BOOLEAN
    /\ max_size = Infinity /\ first_block = 0
    /\ NoDfuse /\ NoDfuseLocals
    /\ NoSession /\ NoWait
    /\ InitLocals

Fail(tag) == /\ result' = "error" /\ err' = tag /\ pc' = "done"

(* ---------------------------- do_write --------------------------------- *)
\* transaction++ : the block number of the request after block t
NextBlock(t) == t + 1

\* the chunk not clamped to xfer_size
ChunkSize_Unclamped(bytes_left, xfer) == bytes_left

\* Math.min(bytes_left, xfer_size)
ChunkSize(bytes_left, xfer) == Min(bytes_left, xfer)

\* the input data of do_write: byte i of the buffer is told apart by its position
Data == [i \in 1..expected_size |-> i]
\* data.slice(begin, end), which stops where the buffer ends
DataSlice(begin, end) == SubSeq(Data, begin + 1, Min(end, Len(Data)))
\* the log entry c of a DNLOAD together with the bytes it carried
Carrying(c, payload) == [payload |-> payload] @@ c

\* loop head with bytes_sent < expected_size: download(data.slice(...), transaction++)
WriteChunk ==
    /\ op = "write" /\ pc = "w_loop" /\ bytes_sent < expected_size
    /\ LET chunk_size == ChunkSize(expected_size - bytes_sent, xfer_size) IN
       /\ transaction' = NextBlock(transaction)
       /\ \/ \E bw \in 0..chunk_size :
               /\ bw < chunk_size => shorts < MaxShort
               /\ shorts' = IF bw < chunk_size THEN shorts + 1 ELSE shorts
               /\ log' = Append(log, Carrying(Call("DNLOAD", transaction, chunk_size, bw),
                                               DataSlice(bytes_sent, bytes_sent + chunk_size)))
               /\ bytes_written' = bw
               /\ pc' = "poll" /\ ret' = "chunk"
               /\ UNCHANGED <<result, err>>
          \/ \E e \in ControlFailures :
               /\ log' = Append(log, Carrying(Thrown("DNLOAD", transaction, chunk_size, e, "n/a"),
                                               DataSlice(bytes_sent, bytes_sent + chunk_size)))
               /\ Fail("Error during DFU download")
               /\ UNCHANGED <<bytes_written, ret, shorts>>
    /\ UNCHANGED <<inputs, openVars, processVars, sessionVars, waitVars, dfuseVars, bytes_sent, dfu_status, readLocals, sleeps>>

\* loop left with bytes_sent >= expected_size: download(new ArrayBuffer(0), transaction++),
\* then the branch on manifestationTolerant
AfterFinalDownload_WebDFU ==
    IF manifestationTolerant
    THEN /\ pc' = "poll" /\ ret' = "manifest"
    ELSE /\ pc' = "m_once" /\ UNCHANGED ret

\* DriverDFU.do_write has no else branch: without manifestationTolerant it goes
\* straight on to the reset
AfterFinalDownload_DriverDFU ==
    IF manifestationTolerant
    THEN /\ pc' = "poll" /\ ret' = "manifest"
    ELSE /\ pc' = "reset" /\ UNCHANGED ret

WriteFinal ==
    /\ op = "write" /\ pc = "w_loop" /\ ~(bytes_sent < expected_size)
    /\ transaction' = NextBlock(transaction)
    /\ \/ /\ log' = Append(log, Call("DNLOAD", transaction, 0, 0))
          /\ IF impl = "WebDFU" THEN AfterFinalDownload_WebDFU ELSE AfterFinalDownload_DriverDFU
          /\ UNCHANGED <<result, err>>
       \/ \E e \in ControlFailures :
            /\ log' = Append(log, Thrown("DNLOAD", transaction, 0, e, "n/a"))
            /\ Fail("Error during final DFU download")
            /\ UNCHANGED ret
    /\ UNCHANGED <<inputs, openVars, processVars, sessionVars, waitVars, dfuseVars, bytes_sent, bytes_written, dfu_status, readLocals, sleeps, shorts>>

(* ---------------------------- poll_until ------------------------------- *)
\* the state_predicate handed to poll_until by the caller that ret names
StatePredicate(r, s) ==
    CASE r = "chunk" -> s = dfuDOWNLOAD_IDLE
      [] r = "manifest" -> s = dfuIDLE \/ s = dfuMANIFEST_WAIT_RESET
      [] OTHER -> FALSE

\* a loop that goes on polling a device in dfuERROR
PollDone_ErrorIgnored(r, s) == StatePredicate(r, s)
\* poll_until leaves its loop on a report whose state satisfies the predicate or is dfuERROR
PollDone(r, s) == StatePredicate(r, s) \/ s = dfuERROR

\* the chunk loop going on whatever status the poll returned
ChunkPolled_StatusIgnored(rep) ==
    /\ bytes_sent' = bytes_sent + bytes_written
    /\ pc' = "w_loop"
    /\ UNCHANGED <<result, err>>

\* the chunk loop counting the chunk it sent instead of what the device took
ChunkPolled_ChunkCounted(rep) ==
    IF rep.status # STATUS_OK
    THEN /\ Fail("DFU DOWNLOAD failed")
         /\ UNCHANGED bytes_sent
    ELSE /\ bytes_sent' = bytes_sent + ChunkSize(expected_size - bytes_sent, xfer_size)
         /\ pc' = "w_loop"
         /\ UNCHANGED <<result, err>>

\* do_write after poll_until_idle(dfuDOWNLOAD_IDLE) returned rep for a data chunk
ChunkPolled(rep) ==
    IF rep.status # STATUS_OK
    THEN /\ Fail("DFU DOWNLOAD failed")
         /\ UNCHANGED bytes_sent
    ELSE /\ bytes_sent' = bytes_sent + bytes_written
         /\ pc' = "w_loop"
         /\ UNCHANGED <<result, err>>

\* the manifestation poll without its status check
ManifestStatusCheck_Missing(rep) == /\ pc' = "reset" /\ UNCHANGED <<result, err>>

\* the status check that ends the try block of the manifestation poll: the
\* WebDFUError thrown there is caught by the catch below it, where
\* error.endsWith is not a function of an Error object, so a TypeError leaves do_write
ManifestStatusCheck(rep) ==
    IF rep.status # STATUS_OK
    THEN Fail("TypeError: error.endsWith is not a function")
    ELSE /\ pc' = "reset" /\ UNCHANGED <<result, err>>

\* WebDFU.do_write after the manifestation poll_until returned rep
ManifestPolled_WebDFU(rep) == ManifestStatusCheck(rep)

\* DriverDFU.do_write after the manifestation poll_until returned rep: on
\* dfuMANIFEST_WAIT_RESET it first awaits device.reset(), then checks the status
ManifestPolled_DriverDFU(rep) ==
    IF rep.state = dfuMANIFEST_WAIT_RESET
    THEN /\ pc' = "m_reset" /\ UNCHANGED <<result, err>>
    ELSE ManifestStatusCheck(rep)

\* catch around the manifestation poll, for a rejected getStatus(): the string
\* "DFU GETSTATUS failed: Error: ControlTransferIn failed: " + e
ManifestPollErrorIgnored(e) == e = DeviceUnavailable \/ e = DeviceDisconnected

\* one getStatus() of poll_until, and, when it ends the poll, the caller's code up to its next await
PollGetStatus ==
    /\ pc = "poll"
    /\ \/ \E rep \in Reports :
            /\ log' = Append(log, Call("GETSTATUS", 0, 6, 0))
            /\ dfu_status' = rep
            /\ IF ~PollDone(ret, rep.state)
               THEN /\ pc' = "sleep" /\ UNCHANGED <<result, err, bytes_sent>>
               ELSE CASE ret = "chunk" -> ChunkPolled(rep)
                      [] ret = "manifest" ->
                           /\ IF impl = "WebDFU" THEN ManifestPolled_WebDFU(rep)
                                                 ELSE ManifestPolled_DriverDFU(rep)
                           /\ UNCHANGED bytes_sent
       \/ \E e \in ControlFailures :
            /\ log' = Append(log, Thrown("GETSTATUS", 0, 6, e, "n/a"))
            /\ UNCHANGED <<dfu_status, bytes_sent>>
            /\ CASE ret = "chunk" -> Fail("Error during DFU download")
                 [] ret = "manifest" ->
                      IF ManifestPollErrorIgnored(e)
                      THEN /\ pc' = "reset" /\ UNCHANGED <<result, err>>
                      ELSE Fail("Error during DFU manifest")
    /\ UNCHANGED <<inputs, openVars, processVars, sessionVars, waitVars, dfuseVars, ret, transaction, bytes_written, readLocals, sleeps, shorts>>

\* await async_sleep(dfu_status.pollTimeout) between two polls
PollSleep ==
    /\ pc = "sleep" /\ sleeps < MaxSleeps
    /\ pc' = "poll" /\ sleeps' = sleeps + 1
    /\ UNCHANGED <<inputs, openVars, processVars, sessionVars, waitVars, dfuseVars, ret, result, err, writeLocals, dfu_status, readLocals, log, shorts>>

(* ----------------------- manifestation and reset ----------------------- *)
\* manifestationTolerant = false: try { await this.getStatus() } catch (error) {}
ManifestOnce ==
    /\ op = "write" /\ pc = "m_once"
    /\ \/ \E rep \in Reports : log' = Append(log, Call("GETSTATUS", 0, 6, 0))
       \/ \E e \in ControlFailures : log' = Append(log, Thrown("GETSTATUS", 0, 6, e, "n/a"))
    /\ pc' = "reset"
    /\ UNCHANGED <<inputs, openVars, processVars, sessionVars, waitVars, dfuseVars, ret, result, err, writeLocals, dfu_status, readLocals, sleeps, shorts>>

\* DriverDFU only: await this.device.reset() inside the try of the manifestation
\* poll; a rejection reaches the catch, where a bare message string fails both
\* endsWith tests and a DOMException has no endsWith at all: do_write throws either way
ManifestReset ==
    /\ op = "write" /\ pc = "m_reset"
    /\ \/ /\ log' = Append(log, Call("RESET", 0, 0, 0))
          /\ ManifestStatusCheck(dfu_status)
       \/ \E e \in TransportErrors, f \in ErrorForms :
            /\ log' = Append(log, Thrown("RESET", 0, 0, e, f))
            /\ IF f = "string" THEN Fail("Error during DFU manifest")
                              ELSE Fail("TypeError: error.endsWith is not a function")
    /\ UNCHANGED <<inputs, openVars, processVars, sessionVars, waitVars, dfuseVars, ret, writeLocals, dfu_status, readLocals, sleeps, shorts>>

DeviceGone == {UnableToReset, DeviceUnavailable, DeviceDisconnected}

\* WebDFU: error == "..." compares String(error), whatever the form of error
ResetErrorIgnored_WebDFU(e, f) == e \in DeviceGone

\* DriverDFU: error !== "..." is strict, a DOMException differs from every string
ResetErrorIgnored_DriverDFU(e, f) == f = "string" /\ e \in DeviceGone

\* the final await this.device.reset() and its catch
Reset ==
    /\ op = "write" /\ pc = "reset"
    /\ \/ /\ log' = Append(log, Call("RESET", 0, 0, 0))
          /\ result' = "ok" /\ pc' = "done" /\ UNCHANGED err
       \/ \E e \in TransportErrors, f \in ErrorForms :
            /\ log' = Append(log, Thrown("RESET", 0, 0, e, f))
            /\ IF (IF impl = "WebDFU" THEN ResetErrorIgnored_WebDFU(e, f)
                                      ELSE ResetErrorIgnored_DriverDFU(e, f))
               THEN /\ result' = "ok" /\ pc' = "done" /\ UNCHANGED err
               ELSE Fail("Error during reset for manifestation")
    /\ UNCHANGED <<inputs, openVars, processVars, sessionVars, waitVars, dfuseVars, ret, writeLocals, dfu_status, readLocals, sleeps, shorts>>

(* ----------------------------- do_read --------------------------------- *)
\* do_read(xfer_size, max_size, first_block) has just been called
InitRead ==
    /\ impl \in Impls
    /\ op = "read" /\ pc = "r_loop"
    /\ xfer_size \in 1..MaxXfer
    /\ max_size \in (0..MaxSize) \cup {Infinity}
    /\ first_block \in {0, 2}
    /\ expected_size = 0 /\ manifestationTolerant = TRUE
    /\ ret = "none" /\ result = "running" /\ err = "none"
    /\ bytes_sent = 0 /\ transaction = first_block /\ bytes_written = 0
    /\ dfu_status = NoStatus /\ sleeps = 0 /\ shorts = 0
    /\ bytes_read = 0 /\ bytes_to_read = 0 /\ byteLength = 0 /\ state = dfuIDLE
    /\ log = <<>>
    /\ NoDfuse /\ NoDfuseLocals
    /\ NoSession /\ NoWait

\* Math.min(xfer_size, max_size - bytes_read), max_size possibly Infinity
BytesToRead(xfer, max, read) == IF max = Infinity THEN xfer ELSE Min(xfer, max - read)

\* bytes_read < max_size, max_size possibly Infinity
BelowMax(read, max) == max = Infinity \/ read < max

\* the loop going on after a short block
ReadLoopAgain_ShortIgnored(read, max, got, asked) == BelowMax(read, max)

\* the while condition of the do ... while loop
ReadLoopAgain(read, max, got, asked) == BelowMax(read, max) /\ got = asked

\* do_read without its abortToIdle
ReadAborts_Never(read, max) == FALSE

\* if (bytes_read == max_size) after the loop
ReadAborts(read, max) == read = max

\* one pass of the do ... while body: upload(bytes_to_read, transaction++), then
\* the loop condition and, when the loop is left, the code up to the next await
Upload ==
    /\ op \in {"read", "dfuse_read"} /\ pc = "r_loop"
    /\ transaction - first_block < MaxUploads
    /\ LET asked == BytesToRead(xfer_size, max_size, bytes_read) IN
       /\ bytes_to_read' = asked
       /\ transaction' = NextBlock(transaction)
       /\ \/ \E got \in 0..asked :
               LET read == IF got > 0 THEN bytes_read + got ELSE bytes_read IN
               /\ log' = Append(log, Call("UPLOAD", transaction, asked, got))
               /\ byteLength' = got
               /\ bytes_read' = read
               /\ IF ReadLoopAgain(read, max_size, got, asked)
                  THEN /\ pc' = "r_loop" /\ UNCHANGED <<result, err>>
                  ELSE IF ReadAborts(read, max_size)
                       THEN /\ pc' = "abort" /\ UNCHANGED <<result, err>>
                       ELSE /\ pc' = "done" /\ result' = "ok" /\ UNCHANGED err
          \/ \E e \in ControlFailures :
               /\ log' = Append(log, Thrown("UPLOAD", transaction, asked, e, "n/a"))
               /\ Fail("ControlTransferIn failed")
               /\ UNCHANGED <<byteLength, bytes_read>>
    /\ UNCHANGED <<inputs, openVars, processVars, sessionVars, waitVars, dfuseVars, ret, bytes_sent, bytes_written, dfu_status, state, sleeps, shorts>>

(* --------------------------- abortToIdle ------------------------------- *)
\* await this.abort()
Abort ==
    /\ pc = "abort"
    /\ \/ /\ log' = Append(log, Call("ABORT", 0, 0, 0))
          /\ pc' = "getstate1" /\ UNCHANGED <<result, err>>
       \/ \E e \in ControlFailures :
            /\ log' = Append(log, Thrown("ABORT", 0, 0, e, "n/a"))
            /\ Fail("ControlTransferOut failed")
    /\ UNCHANGED <<inputs, openVars, processVars, sessionVars, waitVars, dfuseVars, ret, writeLocals, dfu_status, readLocals, sleeps, shorts>>

\* abortToIdle returns to its caller: do_read, which ends with it, or
\* do_dfuse_read, which goes on to SET_ADDRESS after the first one and to
\* do_read(process, xfer_size, max_size, 2) after the second
AbortToIdleReturns ==
    CASE ret = "read_setaddr" -> /\ pc' = "dr_setaddr" /\ ret' = "none" /\ UNCHANGED <<result, err>>
      [] ret = "read_loop" -> /\ pc' = "r_loop" /\ ret' = "none" /\ UNCHANGED <<result, err>>
      [] OTHER -> /\ pc' = "done" /\ result' = "ok" /\ UNCHANGED <<err, ret>>

\* a status cleared whenever the device is not idle
NeedsClear_NotIdle(p, s) == p = "getstate1" /\ s # dfuIDLE
\* if (state === dfuCommands.dfuERROR) after the first getState: the second
\* one is outside that if and is not followed by another clearStatus
NeedsClear(p, s) == p = "getstate1" /\ s = dfuERROR

\* state = await this.getState(), the first or the second one, and the tests that follow it
GetState ==
    /\ pc \in {"getstate1", "getstate2"}
    /\ \/ \E s \in ReportStates :
            /\ log' = Append(log, Call("GETSTATE", 0, 1, 0))
            /\ state' = s
            /\ IF NeedsClear(pc, s)
               THEN /\ pc' = "clrstatus" /\ UNCHANGED <<ret, result, err>>
               ELSE IF s # dfuIDLE
                    THEN /\ Fail("Failed to return to idle state after abort") /\ UNCHANGED ret
                    ELSE AbortToIdleReturns
       \/ \E e \in ControlFailures :
            /\ log' = Append(log, Thrown("GETSTATE", 0, 1, e, "n/a"))
            /\ Fail("DFU GETSTATE failed")
            /\ UNCHANGED <<state, ret>>
    /\ UNCHANGED <<inputs, openVars, processVars, sessionVars, waitVars, dfuseVars, writeLocals, dfu_status, bytes_read, bytes_to_read, byteLength, sleeps, shorts>>

\* await this.clearStatus()
ClearStatus ==
    /\ pc = "clrstatus"
    /\ \/ /\ log' = Append(log, Call("CLRSTATUS", 0, 0, 0))
          /\ pc' = "getstate2" /\ UNCHANGED <<result, err>>
       \/ \E e \in ControlFailures :
            /\ log' = Append(log, Thrown("CLRSTATUS", 0, 0, e, "n/a"))
            /\ Fail("ControlTransferOut failed")
    /\ UNCHANGED <<inputs, openVars, processVars, sessionVars, waitVars, dfuseVars, ret, writeLocals, dfu_status, readLocals, sleeps, shorts>>

(* ------------------------------ erase ---------------------------------- *)
\* what a failure inside dfuseCommand or a poll leaves the operation with: the
\* chunk loop and the commit of do_dfuse_write wrap it, erase and do_dfuse_read pass it on
DfuseFailure(r, tag) ==
    CASE r = "chunk_addr" \/ r = "chunk" -> "Error during DfuSe download"
      [] r = "commit" -> "Error during DfuSe manifestation"
      [] OTHER -> tag

\* dfuseCommand(command, param, 4) up to its poll_until: download(payload, 0)
DfuseCommand(command, param, r) ==
    \/ /\ log' = Append(log, Command(command, param))
       /\ pc' = "d_poll" /\ ret' = r
       /\ UNCHANGED <<result, err>>
    \/ \E e \in DfuseFailures :
         /\ log' = Append(log, ThrownCommand(command, param, e))
         /\ Fail(DfuseFailure(r, "Error during special DfuSe command"))
         /\ UNCHANGED ret

\* process.events.emit("process", bytesErased, bytesToErase) (part_008: logProgress)
Emitted(done, total) == Append(progress, <<done, total>>)

\* erase(startAddr, length) up to its loop: the segment and sector of startAddr
\* and the end of the sector of startAddr + length - 1; getDfuseSectorStart and
\* getDfuseSectorEnd throw for an address in no segment
EraseStart ==
    /\ pc = "e_start"
    /\ LET seg == getDfuseSegment(startAddress)
           last == startAddress + expected_size - 1
       IN IF seg = null \/ getDfuseSegment(last) = null
          THEN /\ Fail("Address outside of memory map")
               /\ UNCHANGED <<segment, addr, endAddr, eraseVars>>
          ELSE /\ segment' = seg
               /\ addr' = getDfuseSectorStart(startAddress, seg)
               /\ endAddr' = getDfuseSectorEnd(last, getDfuseSegment(last))
               /\ bytesErased' = 0
               /\ bytesToErase' = endAddr' - addr'
               /\ progress' = IF bytesToErase' > 0 THEN Emitted(0, bytesToErase') ELSE progress
               /\ pc' = "e_loop"
               /\ UNCHANGED <<result, err>>
    /\ UNCHANGED <<inputs, openVars, processVars, sessionVars, waitVars, dfuseInputs, ret, writeLocals, dfu_status, readLocals, log, sleeps, shorts,
                   startAddress, address>>

\* the skipped section counted in full
SkippedBytes_Unclamped(done, skipped, total) == done + skipped
\* bytesErased = Math.min(bytesErased + (segment?.end ?? 0) - addr, bytesToErase)
SkippedBytes(done, skipped, total) == Min(done + skipped, total)

\* addr = segment?.end ?? 0
EraseSkipTo(a, seg) == SegmentEnd(seg)

\* the next sector taken to start one byte on
NextSector_ByteOn(sectorAddr, seg) == sectorAddr + 1

\* addr = sectorAddr + segment.sectorSize
NextSector(sectorAddr, seg) == sectorAddr + segments[seg].sectorSize

\* one pass of while (addr < endAddr): skip a non-erasable section or send
\* ERASE_SECTOR for the sector of addr; past the loop erase emits "end" and
\* do_dfuse_write goes on with let address = startAddress
EraseLoop ==
    /\ pc = "e_loop"
    /\ IF ~(addr < endAddr)
       THEN /\ IF op = "erase"
               THEN /\ pc' = "done" /\ result' = "ok" /\ UNCHANGED address
               ELSE /\ pc' = "dw_loop" /\ address' = startAddress /\ UNCHANGED result
            /\ UNCHANGED <<ret, err, log, segment, addr, eraseVars>>
       ELSE LET seg == IF SegmentEnd(segment) <= addr THEN getDfuseSegment(addr) ELSE segment IN
            /\ segment' = seg
            /\ UNCHANGED address
            /\ IF ~Erasable(seg)
               THEN /\ bytesErased' = SkippedBytes(bytesErased, SegmentEnd(seg) - addr, bytesToErase)
                    /\ addr' = EraseSkipTo(addr, seg)
                    /\ progress' = Emitted(bytesErased', bytesToErase)
                    /\ UNCHANGED <<pc, ret, result, err, log, bytesToErase>>
               ELSE /\ DfuseCommand(ERASE_SECTOR, getDfuseSectorStart(addr, seg), "erase")
                    /\ UNCHANGED <<addr, eraseVars>>
    /\ UNCHANGED <<inputs, openVars, processVars, sessionVars, waitVars, dfuseInputs, writeLocals, dfu_status, readLocals, sleeps, shorts,
                   startAddress, endAddr>>

(* -------------------- poll_until of the DfuSe paths -------------------- *)
\* a dfuseCommand whose poll takes the first report, whatever its state
DfuseStatePredicate_BusyAccepted(r, s) ==
    CASE r = "chunk" -> s = dfuDOWNLOAD_IDLE
      [] r = "dfuse_manifest" -> s = dfuMANIFEST
      [] OTHER -> TRUE

\* the state_predicate handed to poll_until: dfuseCommand waits for the end of
\* dfuDNBUSY, the chunk for dfuDNLOAD_IDLE, the commit for dfuMANIFEST
DfuseStatePredicate(r, s) ==
    CASE r = "chunk" -> s = dfuDOWNLOAD_IDLE
      [] r = "dfuse_manifest" -> s = dfuMANIFEST
      [] OTHER -> s # dfuDNBUSY

DfusePollDone(r, s) == DfuseStatePredicate(r, s) \/ s = dfuERROR

\* do_dfuse_read going from SET_ADDRESS straight to its UPLOAD requests
ReadAddressSet_NoAbort == pc' = "r_loop" /\ ret' = "none"

\* do_dfuse_read after dfuseCommand(SET_ADDRESS, startAddress, 4): await this.abortToIdle()
ReadAddressSet == pc' = "abort" /\ ret' = "read_loop"

\* the address of the next chunk following what the device reports written
NextAddress_Written(a, chunk_size, written) == a + written

\* address += chunk_size
NextAddress(a, chunk_size, written) == a + chunk_size

\* the caller's code after poll_until returned rep, up to its next await
DfusePolled(r, rep) ==
    CASE r = "chunk" ->
           \* do_dfuse_write after poll_until_idle(dfuDNLOAD_IDLE) for a data chunk
           /\ address' = NextAddress(address, ChunkSize(expected_size - bytes_sent, xfer_size), bytes_written)
           /\ dfu_status' = rep
           /\ UNCHANGED <<ret, addr, eraseVars>>
           /\ IF rep.status # STATUS_OK
              THEN /\ Fail("DFU DOWNLOAD failed") /\ UNCHANGED bytes_sent
              ELSE /\ bytes_sent' = bytes_sent + bytes_written
                   /\ pc' = "dw_loop" /\ UNCHANGED <<result, err>>
      [] r = "dfuse_manifest" ->
           \* await this.poll_until(state == dfuMANIFEST) ends do_dfuse_write, whatever it returned
           /\ dfu_status' = rep
           /\ pc' = "done" /\ result' = "ok"
           /\ UNCHANGED <<ret, err, bytes_sent, address, addr, eraseVars>>
      [] OTHER ->
           \* dfuseCommand after its poll_until: if (status.status != STATUS_OK) throw
           /\ UNCHANGED <<dfu_status, bytes_sent, address>>
           /\ IF rep.status # STATUS_OK
              THEN /\ Fail(DfuseFailure(r, "Special DfuSe command failed"))
                   /\ UNCHANGED <<ret, addr, eraseVars>>
              ELSE /\ UNCHANGED <<result, err>>
                   /\ CASE r = "erase" ->
                             \* erase after dfuseCommand(ERASE_SECTOR, sectorAddr, 4)
                             /\ addr' = NextSector(getDfuseSectorStart(addr, segment), segment)
                             /\ bytesErased' = bytesErased + segments[segment].sectorSize
                             /\ progress' = Emitted(bytesErased', bytesToErase)
                             /\ pc' = "e_loop" /\ UNCHANGED <<ret, bytesToErase>>
                        [] r = "chunk_addr" -> /\ pc' = "dw_data" /\ UNCHANGED <<ret, addr, eraseVars>>
                        [] r = "commit" -> /\ pc' = "dw_final" /\ UNCHANGED <<ret, addr, eraseVars>>
                        [] r = "read_addr" -> /\ ReadAddressSet /\ UNCHANGED <<addr, eraseVars>>

\* a getStatus() as the log keeps it.  In the poll of a dfuseCommand the entry
\* keeps what the predicate saw (busy: the state was dfuDNBUSY) and, for the
\* reply that ends the poll, the status dfuseCommand then tests; the report
\* that ends the poll of a chunk or of the commit is kept in dfu_status
StatusCall(r, rep) ==
    IF r \in {"chunk", "dfuse_manifest"} THEN Call("GETSTATUS", 0, 6, 0)
    ELSE IF DfusePollDone(r, rep.state)
         THEN [req |-> "GETSTATUS", block |-> 0, len |-> 6, res |-> 0, error |-> "none", form |-> "none",
               status |-> rep.status, busy |-> rep.state = dfuDNBUSY]
         ELSE [req |-> "GETSTATUS", block |-> 0, len |-> 6, res |-> 0, error |-> "none", form |-> "none",
               busy |-> rep.state = dfuDNBUSY]

\* one getStatus() of poll_until on a DfuSe path
DfusePoll ==
    /\ pc = "d_poll"
    /\ \/ \E rep \in DfuseReports :
            /\ log' = Append(log, StatusCall(ret, rep))
            /\ IF ~DfusePollDone(ret, rep.state)
               THEN /\ pc' = "d_sleep"
                    /\ UNCHANGED <<ret, result, err, dfu_status, bytes_sent, address, addr, eraseVars>>
               ELSE DfusePolled(ret, rep)
       \/ \E e \in DfuseFailures :
            /\ log' = Append(log, Thrown("GETSTATUS", 0, 6, e, "n/a"))
            /\ Fail(DfuseFailure(ret, "DFU GETSTATUS failed"))
            /\ UNCHANGED <<ret, dfu_status, bytes_sent, address, addr, eraseVars>>
    /\ UNCHANGED <<inputs, openVars, processVars, sessionVars, waitVars, dfuseInputs, transaction, bytes_written, readLocals, sleeps, shorts,
                   startAddress, segment, endAddr>>

\* await async_sleep(dfu_status.pollTimeout) between two polls
DfuseSleep ==
    /\ pc = "d_sleep" /\ sleeps < MaxDfuseSleeps
    /\ pc' = "d_poll" /\ sleeps' = sleeps + 1
    /\ UNCHANGED <<inputs, openVars, processVars, sessionVars, waitVars, dfuseVars, ret, result, err, writeLocals, dfu_status, readLocals, log, shorts>>

(* -------------------------- do_dfuse_write ----------------------------- *)
\* a start address outside the memory map let through
StartRejected_Never(a, length) == FALSE

\* the else-if on an explicitly set start address: WebDFU lets an address in no
\* segment through when data is empty, DriverDFU (src/unnamed/part_008) never
StartRejected(a, length) ==
    /\ getDfuseSegment(a) = null
    /\ impl = "WebDFU" => length # 0

\* do_dfuse_write up to its call of erase: the memory map test and the start address
DfuseWriteStart ==
    /\ op = "dfuse_write" /\ pc = "dw_start"
    /\ IF ~dfuseMemoryInfo
       THEN /\ Fail("No memory map available") /\ UNCHANGED startAddress
       ELSE IF dfuseStartAddress = NaN
       THEN LET first == IF segments = <<>> THEN undefined ELSE segments[1].start IN
            IF Falsy(first)
            THEN /\ Fail("startAddress not found") /\ UNCHANGED startAddress
            ELSE /\ startAddress' = first /\ pc' = "e_start" /\ UNCHANGED <<result, err>>
       ELSE IF StartRejected(dfuseStartAddress, expected_size)
       THEN /\ Fail("Start address outside of memory map bounds") /\ UNCHANGED startAddress
       ELSE IF impl = "WebDFU" /\ Falsy(dfuseStartAddress)
       THEN \* if (!startAddress) reject(...) ahead of this.erase(startAddress, expected_size)
            /\ Fail("startAddress not found") /\ UNCHANGED startAddress
       ELSE /\ startAddress' = dfuseStartAddress /\ pc' = "e_start" /\ UNCHANGED <<result, err>>
    /\ UNCHANGED <<inputs, openVars, processVars, sessionVars, waitVars, dfuseInputs, ret, writeLocals, dfu_status, readLocals, log, sleeps, shorts,
                   address, segment, addr, endAddr, eraseVars>>

\* the commit pointing at where the chunk loop stopped
CommitAddress_Current(start, current) == current

\* dfuseCommand(SET_ADDRESS, startAddress, 4) after the chunk loop
CommitAddress(start, current) == start

\* loop head of do_dfuse_write: SET_ADDRESS for the next chunk, or for the commit
\* once all is sent; let bytes_written = 0 and let dfu_status of the loop body
\* are fresh in every pass and gone after the loop
DfuseWriteLoop ==
    /\ op = "dfuse_write" /\ pc = "dw_loop"
    /\ IF bytes_sent < expected_size
       THEN DfuseCommand(SET_ADDRESS, address, "chunk_addr")
       ELSE DfuseCommand(SET_ADDRESS, CommitAddress(startAddress, address), "commit")
    /\ bytes_written' = 0 /\ dfu_status' = NoStatus
    /\ UNCHANGED <<inputs, openVars, processVars, sessionVars, waitVars, dfuseVars, bytes_sent, transaction, readLocals, sleeps, shorts>>

\* download(data.slice(bytes_sent, bytes_sent + chunk_size), 2)
DfuseWriteData ==
    /\ op = "dfuse_write" /\ pc = "dw_data"
    /\ LET chunk_size == ChunkSize(expected_size - bytes_sent, xfer_size) IN
       \/ \E bw \in 0..chunk_size :
            /\ bw < chunk_size => shorts < MaxShort
            /\ shorts' = IF bw < chunk_size THEN shorts + 1 ELSE shorts
            /\ log' = Append(log, Call("DNLOAD", 2, chunk_size, bw))
            /\ bytes_written' = bw
            /\ pc' = "d_poll" /\ ret' = "chunk"
            /\ UNCHANGED <<result, err>>
       \/ \E e \in DfuseFailures :
            /\ log' = Append(log, Thrown("DNLOAD", 2, chunk_size, e, "n/a"))
            /\ Fail("Error during DfuSe download")
            /\ UNCHANGED <<bytes_written, ret, shorts>>
    /\ UNCHANGED <<inputs, openVars, processVars, sessionVars, waitVars, dfuseVars, bytes_sent, transaction, dfu_status, readLocals, sleeps>>

\* download(new ArrayBuffer(0), 0), then poll_until(state == dfuMANIFEST)
DfuseWriteFinal ==
    /\ op = "dfuse_write" /\ pc = "dw_final"
    /\ \/ /\ log' = Append(log, Call("DNLOAD", 0, 0, 0))
          /\ pc' = "d_poll" /\ ret' = "dfuse_manifest"
          /\ UNCHANGED <<result, err>>
       \/ \E e \in DfuseFailures :
            /\ log' = Append(log, Thrown("DNLOAD", 0, 0, e, "n/a"))
            /\ Fail("Error during DfuSe manifestation")
            /\ UNCHANGED ret
    /\ UNCHANGED <<inputs, openVars, processVars, sessionVars, waitVars, dfuseVars, writeLocals, dfu_status, readLocals, sleeps, shorts>>

\* start addresses followed for a memory map: unset, and every address from 0 to its end
StartAddresses(m) == {NaN} \cup (0..MapEnd(m))

\* erase(startAddr, length) has just been called
InitErase ==
    /\ impl \in Impls
    /\ op = "erase" /\ pc = "e_start"
    /\ xfer_size = 1 /\ manifestationTolerant = TRUE /\ max_size = Infinity /\ first_block = 0
    /\ dfuseMemoryInfo = TRUE
    /\ segments \in MemoryMaps(MaxSegments)
    /\ dfuseStartAddress = NaN
    /\ expected_size \in 0..MaxErase
    /\ InitLocals
    /\ startAddress \in 0..MapEnd(segments)
    /\ address = 0 /\ segment = null /\ addr = 0 /\ endAddr = 0
    /\ bytesErased = 0 /\ bytesToErase = 0 /\ progress = <<>>
    /\ NoSession /\ NoWait

NextErase ==
    \/ EraseStart
    \/ EraseLoop
    \/ DfusePoll
    \/ DfuseSleep

SpecErase == InitErase /\ [][NextErase]_vars

\* memory maps of two blocks with one address between them that is in no
\* segment: "/<b>/<run>" followed by "/<end of the first + 1>/<run>"
GapMaps ==
    {ParsedBlocks(<<Block(b, <<sh1>>), Block(b + sh1.sectorSize * sh1.sectorCount + 1, <<sh2>>)>>) :
        b \in Bases, sh1 \in Shapes, sh2 \in Shapes}

\* erase(startAddr, length) has just been called on a device with such a map
InitEraseGap ==
    /\ impl \in Impls
    /\ op = "erase" /\ pc = "e_start"
    /\ xfer_size = 1 /\ manifestationTolerant = TRUE /\ max_size = Infinity /\ first_block = 0
    /\ dfuseMemoryInfo = TRUE
    /\ segments \in GapMaps
    /\ dfuseStartAddress = NaN
    /\ expected_size \in 0..MaxErase
    /\ InitLocals
    /\ startAddress \in 0..MapEnd(segments)
    /\ address = 0 /\ segment = null /\ addr = 0 /\ endAddr = 0
    /\ bytesErased = 0 /\ bytesToErase = 0 /\ progress = <<>>
    /\ NoSession /\ NoWait

\* the erase followed until it has emitted MaxGapEvents progress events
NextEraseGap ==
    \/ EraseStart
    \/ (Len(progress) < MaxGapEvents /\ EraseLoop)
    \/ DfusePoll
    \/ DfuseSleep

SpecEraseGap == InitEraseGap /\ [][NextEraseGap]_vars

\* the memory map "/0x0/4*1Ke,1*1Kd,4*1Ke": four erasable sectors of 0x400
\* bytes from 0x0, one sector that is not erasable, four erasable sectors
ExampleMap ==
    ParsedSegments(0, <<[sectorSize |-> 1024, sectorCount |-> 4, erasable |-> TRUE],
                        [sectorSize |-> 1024, sectorCount |-> 1, erasable |-> FALSE],
                        [sectorSize |-> 1024, sectorCount |-> 4, erasable |-> TRUE]>>)

\* erase(0x0, 0x2000) has just been called on a device with that memory map
InitEraseExample ==
    /\ impl \in Impls
    /\ op = "erase" /\ pc = "e_start"
    /\ xfer_size = 1 /\ manifestationTolerant = TRUE /\ max_size = Infinity /\ first_block = 0
    /\ dfuseMemoryInfo = TRUE
    /\ segments = ExampleMap
    /\ dfuseStartAddress = NaN
    /\ expected_size = 8192
    /\ InitLocals
    /\ startAddress = 0
    /\ address = 0 /\ segment = null /\ addr = 0 /\ endAddr = 0
    /\ bytesErased = 0 /\ bytesToErase = 0 /\ progress = <<>>
    /\ NoSession /\ NoWait

SpecEraseExample == InitEraseExample /\ [][NextErase]_vars

\* do_dfuse_write(xfer_size, data) has just been called on a device with a
\* memory map of at most one segment, or with none
InitDfuseWrite ==
    /\ impl \in Impls
    /\ op = "dfuse_write" /\ pc = "dw_start"
    /\ xfer_size \in 1..MaxXfer
    /\ expected_size \in 0..MaxDfuseData
    /\ manifestationTolerant = TRUE /\ max_size = Infinity /\ first_block = 0
    /\ \/ NoDfuse
       \/ /\ dfuseMemoryInfo = TRUE
          /\ segments \in MemoryMaps(1)
          /\ dfuseStartAddress \in StartAddresses(segments)
    /\ InitLocals /\ NoDfuseLocals
    /\ NoSession /\ NoWait

NextDfuseWrite ==
    \/ DfuseWriteStart
    \/ EraseStart
    \/ EraseLoop
    \/ DfuseWriteLoop
    \/ DfuseWriteData
    \/ DfuseWriteFinal
    \/ DfusePoll
    \/ DfuseSleep

SpecDfuseWrite == InitDfuseWrite /\ [][NextDfuseWrite]_vars

(* --------------------------- do_dfuse_read ----------------------------- *)
\* do_dfuse_read up to its first await: the memory map test and the start
\* address; an explicit address outside the map only logs a warning
DfuseReadStart ==
    /\ op = "dfuse_read" /\ pc = "dr_start"
    /\ IF ~dfuseMemoryInfo
       THEN /\ Fail("Unknown a DfuSe memory info") /\ UNCHANGED startAddress
       ELSE IF dfuseStartAddress = NaN
       THEN LET first == IF segments = <<>> THEN undefined ELSE segments[1].start IN
            IF Falsy(first)
            THEN /\ Fail("Unknown memory segments") /\ UNCHANGED startAddress
            ELSE /\ startAddress' = first /\ pc' = "dr_getstate" /\ UNCHANGED <<result, err>>
       ELSE /\ startAddress' = dfuseStartAddress /\ pc' = "dr_getstate" /\ UNCHANGED <<result, err>>
    /\ UNCHANGED <<inputs, openVars, processVars, sessionVars, waitVars, dfuseInputs, ret, writeLocals, dfu_status, readLocals, log, sleeps, shorts,
                   address, segment, addr, endAddr, eraseVars>>

\* let state = await this.getState(); if (state != dfuIDLE) await this.abortToIdle()
DfuseReadGetState ==
    /\ op = "dfuse_read" /\ pc = "dr_getstate"
    /\ \/ \E s \in ReportStates :
            /\ log' = Append(log, Call("GETSTATE", 0, 1, 0))
            /\ state' = s
            /\ IF s # dfuIDLE
               THEN /\ pc' = "abort" /\ ret' = "read_setaddr"
               ELSE /\ pc' = "dr_setaddr" /\ UNCHANGED ret
            /\ UNCHANGED <<result, err>>
       \/ \E e \in ControlFailures :
            /\ log' = Append(log, Thrown("GETSTATE", 0, 1, e, "n/a"))
            /\ Fail("DFU GETSTATE failed")
            /\ UNCHANGED <<state, ret>>
    /\ UNCHANGED <<inputs, openVars, processVars, sessionVars, waitVars, dfuseVars, writeLocals, dfu_status, bytes_read, bytes_to_read, byteLength,
                   sleeps, shorts>>

\* await this.dfuseCommand(DFUseCommands.SET_ADDRESS, startAddress, 4)
DfuseReadSetAddress ==
    /\ op = "dfuse_read" /\ pc = "dr_setaddr"
    /\ DfuseCommand(SET_ADDRESS, startAddress, "read_addr")
    /\ UNCHANGED <<inputs, openVars, processVars, sessionVars, waitVars, dfuseVars, writeLocals, dfu_status, readLocals, sleeps, shorts>>

\* do_dfuse_read(xfer_size, max_size) has just been called; do_read will be
\* called with first_block = 2
InitDfuseRead ==
    /\ impl \in Impls
    /\ op = "dfuse_read" /\ pc = "dr_start"
    /\ xfer_size \in 1..MaxXfer
    /\ max_size \in (0..MaxSize) \cup {Infinity}
    /\ first_block = 2
    /\ expected_size = 0 /\ manifestationTolerant = TRUE
    /\ \/ NoDfuse
       \/ /\ dfuseMemoryInfo = TRUE
          /\ segments \in {m \in MemoryMaps(1) : \A i \in 1..Len(m) : m[i].sectorSize = 1 /\ m[i].erasable}
          /\ dfuseStartAddress \in StartAddresses(segments)
    /\ ret = "none" /\ result = "running" /\ err = "none"
    /\ bytes_sent = 0 /\ transaction = first_block /\ bytes_written = 0
    /\ dfu_status = NoStatus /\ sleeps = 0 /\ shorts = 0
    /\ bytes_read = 0 /\ bytes_to_read = 0 /\ byteLength = 0 /\ state = dfuIDLE
    /\ log = <<>>
    /\ NoDfuseLocals
    /\ NoSession /\ NoWait

NextDfuseRead ==
    \/ DfuseReadStart
    \/ DfuseReadGetState
    \/ DfuseReadSetAddress
    \/ DfusePoll
    \/ DfuseSleep
    \/ Abort
    \/ GetState
    \/ ClearStatus
    \/ Upload

SpecDfuseRead == InitDfuseRead /\ [][NextDfuseRead]_vars

NextRead ==
    \/ Upload
    \/ Abort
    \/ GetState
    \/ ClearStatus

SpecRead == InitRead /\ [][NextRead]_vars

NextWrite ==
    \/ WriteChunk
    \/ WriteFinal
    \/ PollGetStatus
    \/ PollSleep
    \/ ManifestOnce
    \/ ManifestReset
    \/ Reset

SpecWrite == InitWrite /\ [][NextWrite]_vars

(* ------------------------------ connect -------------------------------- *)
\* the two enumerations of the engine type: the record of src/types.ts and the
\* enum of src/core.ts, whose members count from 0
WebDFUType == [DFU |-> 1, SDFUse |-> 2]
WebDFUDriverType == [Dfu |-> 0, DfuSe |-> 1]

\* the session classes: "WebDFU" holds the engines itself (src/unnamed/part_002),
\* "DriverDFU" delegates to a driver (src/unnamed/part_003, first class) and
\* "Legacy" keeps a DFU / DFUse object in this.dfu (src/unnamed/part_003, second class)
SessionImpls == {"WebDFU", "DriverDFU", "Legacy"}

\* bcdDFUVersion of the functional descriptor: 0x0110 (DFU 1.1) and 0x011a (DfuSe)
DFUVersions == {272, 282}
\* interfaceProtocol of the alternates findDfuInterfaces lists: 0x01 (DFU), 0x02 (DfuSe)
InterfaceProtocols == {1, 2}
\* interface names of the candidates: "Flash" and "@Flash/0x0/2*1 g"; a
\* candidate without a name has name 0
InterfaceNames ==
    << [at |-> FALSE, slash |-> FALSE, blocks |-> <<>>],
       [at |-> TRUE, slash |-> TRUE,
        blocks |-> <<Block(0, <<[sectorSize |-> 1, sectorCount |-> 2, erasable |-> TRUE]>>)>>] >>

\* get type() of the class WebDFU that holds the engines itself (src/unnamed/part_002)
Type_WebDFU ==
    IF properties = 282 /\ currentInterfaceSettings /\ interfaceProtocol = 2
    THEN WebDFUType.SDFUse ELSE WebDFUType.DFU

\* get type() of the class WebDFU that delegates to a driver (src/unnamed/part_003):
\* d is this.driver and protocol its settings.alternate.interfaceProtocol
Type_Driver(props, d, protocol) ==
    IF props = 282 /\ d # "none" /\ protocol = 2
    THEN WebDFUDriverType.DfuSe ELSE WebDFUDriverType.Dfu

\* get type() of the legacy class WebDFU, which returns its own enum WebDFUType
Type_Legacy(props, d, protocol) ==
    IF props = 282 /\ d # "none" /\ protocol = 2
    THEN WebDFUType.SDFUse ELSE WebDFUType.DFU

\* this.events.emit(e)
Emit(e) == events' = Append(events, e)

\* the session is connected: the last event it emitted is "connect" and the
\* device is still attached
Connected == plugged /\ events # <<>> /\ events[Len(events)] = "connect"

\* a call on the session has thrown
Throw(tag) == /\ result' = "error" /\ err' = tag /\ pc' = "session"

\* the client calls connect(interfaceIndex): interfaces[interfaceIndex] is a
\* candidate with its alternate and name, or undefined; descriptor is what
\* getDFUDescriptorProperties will return
ConnectCalled ==
    /\ pc = "session"
    /\ calls < MaxCalls
    /\ calls' = calls + 1
    /\ descriptor' \in {null} \cup DFUVersions
    /\ \/ intrf' = FALSE /\ alternate' = 0 /\ name' = 0
       \/ /\ intrf' = TRUE
          /\ alternate' \in InterfaceProtocols
          /\ name' \in 0..Len(InterfaceNames)
    /\ pc' = "connect" /\ result' = "running" /\ err' = "none"
    /\ UNCHANGED <<inputs, openVars, processVars, dfuseVars, descriptorVars, waitVars, ret, writeLocals, dfu_status, readLocals, log, sleeps, shorts,
                   interfaceProtocol, currentInterfaceSettings, properties, driver, engine,
                   opened, claimed, plugged, events>>

\* what connect leaves untouched when it throws before it selected anything
ConnectNothing ==
    UNCHANGED <<interfaceProtocol, currentInterfaceSettings, properties, driver, dfuseInputs>>

\* the interface lookup and what follows it up to await open(), in the class
\* that holds the engines itself
ConnectWebDFU ==
    IF ~intrf
    THEN /\ Throw("Interface not found")
         /\ ConnectNothing /\ UNCHANGED events
    ELSE /\ currentInterfaceSettings' = TRUE
         /\ interfaceProtocol' = alternate
         /\ UNCHANGED <<driver, events, dfuseStartAddress>>
         /\ IF name # 0 /\ NotDfuSe(InterfaceNames[name])
            THEN /\ Throw("Not a DfuSe memory descriptor")
                 /\ UNCHANGED <<properties, dfuseMemoryInfo, segments>>
            ELSE /\ IF name # 0
                    THEN /\ dfuseMemoryInfo' = TRUE
                         /\ segments' = parseMemoryDescriptor(InterfaceNames[name])
                    ELSE UNCHANGED <<dfuseMemoryInfo, segments>>
                 /\ properties' = IF descriptor # null THEN descriptor ELSE properties
                 /\ pc' = "open" /\ UNCHANGED <<result, err>>

\* the same in the class that delegates to a driver: connect compares
\* this.type with WebDFUType.SDFUse
ConnectDriver ==
    IF ~intrf
    THEN /\ Throw("Interface not found")
         /\ ConnectNothing /\ UNCHANGED events
    ELSE /\ interfaceProtocol' = alternate
         /\ properties' = IF descriptor # null THEN descriptor ELSE properties
         /\ driver' = IF /\ descriptor # null
                         /\ Type_Driver(descriptor, "DriverDFU", alternate) = WebDFUType.SDFUse
                      THEN "DriverDFUse" ELSE "DriverDFU"
         /\ pc' = "open"
         /\ UNCHANGED <<currentInterfaceSettings, dfuseInputs, events, result, err>>

\* the same in the legacy class, which has no interface lookup: with
\* interfaces[interfaceIndex] undefined, this.dfu.settings is undefined and
\* this.type or this.dfu.open() throws a TypeError
ConnectLegacy ==
    /\ driver' = IF descriptor # null /\ intrf /\ Type_Legacy(descriptor, "DriverDFU", alternate) = WebDFUType.SDFUse
                 THEN "DriverDFUse" ELSE "DriverDFU"
    /\ properties' = IF descriptor # null THEN descriptor ELSE properties
    /\ interfaceProtocol' = alternate
    /\ UNCHANGED <<currentInterfaceSettings, dfuseInputs>>
    /\ IF intrf
       THEN pc' = "open" /\ UNCHANGED <<events, result, err>>
       ELSE IF descriptor # null
            THEN Throw("TypeError") /\ UNCHANGED events
            ELSE Throw("TypeError") /\ Emit("disconnect")

\* connect(interfaceIndex) up to await open(): device.open() if the device is
\* not opened (not in the class that delegates to a driver, whose init() opens
\* it), the functional descriptor, the interface lookup, the memory map, the
\* properties and (with drivers) the choice of the driver
Connect ==
    /\ pc = "connect"
    /\ IF impl # "DriverDFU" /\ ~opened /\ ~plugged
       THEN /\ Throw(DeviceUnavailable)
            /\ ConnectNothing /\ UNCHANGED <<events, opened>>
       ELSE /\ opened' = IF impl # "DriverDFU" THEN TRUE ELSE opened
            /\ \/ /\ Throw("getDFUDescriptorProperties failed")
                  /\ Emit("disconnect")
                  /\ ConnectNothing
               \/ /\ opened'
                  /\ CASE impl = "WebDFU" -> ConnectWebDFU
                       [] impl = "DriverDFU" -> ConnectDriver
                       [] OTHER -> ConnectLegacy
    /\ UNCHANGED <<inputs, openVars, processVars, dfuseLocals, descriptorVars, waitVars, ret, writeLocals, dfu_status, readLocals, log, sleeps, shorts,
                   descriptor, intrf, alternate, name, engine, claimed, plugged, calls>>

\* await this.open() (await this.driver.open(), await this.dfu.open()):
\* selectConfiguration, claimInterface, selectAlternateInterface; then emit "connect"
Open ==
    /\ pc = "open"
    /\ \/ /\ Throw("open failed")
          /\ Emit("disconnect")
          /\ claimed' \in {claimed, plugged}
       \/ /\ plugged /\ opened
          /\ claimed' = TRUE
          /\ Emit("connect")
          /\ pc' = "session" /\ result' = "ok" /\ UNCHANGED err
    /\ UNCHANGED <<inputs, openVars, processVars, dfuseVars, descriptorVars, waitVars, ret, writeLocals, dfu_status, readLocals,
                   log, sleeps, shorts,
                   descriptor, interfaceProtocol, intrf, alternate, name, currentInterfaceSettings,
                   properties, driver, engine, opened, plugged, calls>>

\* close(): await this.device.close(), then emit "disconnect"
Close ==
    /\ pc = "session"
    /\ calls < MaxCalls
    /\ calls' = calls + 1
    /\ \/ /\ Throw("close failed")
          /\ UNCHANGED <<opened, claimed, events>>
       \/ /\ plugged
          /\ opened' = FALSE /\ claimed' = FALSE
          /\ Emit("disconnect")
          /\ result' = "ok" /\ err' = "none" /\ UNCHANGED pc
    /\ UNCHANGED <<inputs, openVars, processVars, dfuseVars, descriptorVars, waitVars, ret, writeLocals, dfu_status, readLocals,
                   log, sleeps, shorts,
                   descriptor, interfaceProtocol, intrf, alternate, name, currentInterfaceSettings,
                   properties, driver, engine, plugged>>

\* the device is unplugged: the transport drops the claim and the handle; no
\* code of the session runs
Unplug ==
    /\ pc = "session"
    /\ plugged
    /\ plugged' = FALSE /\ opened' = FALSE /\ claimed' = FALSE
    /\ UNCHANGED <<inputs, openVars, processVars, dfuseVars, descriptorVars, waitVars, ret, result, err, pc, writeLocals, dfu_status, readLocals,
                   log, sleeps, shorts,
                   descriptor, interfaceProtocol, intrf, alternate, name, currentInterfaceSettings,
                   properties, driver, engine, events, calls>>

\* read(xfer_size, max_size) or write(xfer_size, data, manifestationTolerant)
\* picks the engine: by this.type, or by the driver connect has chosen
\* (this.driver?.do_read(...) is undefined without a driver)
Dispatch ==
    /\ pc = "session"
    /\ impl # "Legacy"
    /\ engine' = IF impl = "WebDFU"
                 THEN (IF Type_WebDFU = WebDFUType.SDFUse THEN "DfuSe" ELSE "DFU")
                 ELSE (IF driver = "DriverDFUse" THEN "DfuSe" ELSE "DFU")
    /\ IF impl = "DriverDFU" /\ driver = "none"
       THEN pc' = "done" /\ result' = "ok" /\ err' = "undefined"
       ELSE pc' = "dispatched" /\ result' = "running" /\ err' = "none"
    /\ UNCHANGED <<inputs, openVars, processVars, dfuseVars, descriptorVars, waitVars, ret, writeLocals, dfu_status, readLocals,
                   log, sleeps, shorts,
                   descriptor, interfaceProtocol, intrf, alternate, name, currentInterfaceSettings,
                   properties, driver, opened, claimed, plugged, events, calls>>

\* the request the engine starts with
FirstRequest ==
    IF op = "write" THEN "DNLOAD" ELSE IF engine = "DfuSe" THEN "GETSTATE" ELSE "UPLOAD"

\* the engine up to its first requestIn / requestOut: the DfuSe engine throws
\* without a memory map, this.intfNumber throws without a selected interface;
\* otherwise device.controlTransferIn / controlTransferOut is called, and it
\* rejects on a device that is closed or gone
FirstTransfer ==
    /\ pc = "dispatched"
    /\ IF impl = "WebDFU" /\ engine = "DfuSe" /\ (~dfuseMemoryInfo \/ segments = <<>>)
       THEN /\ result' = "error" /\ err' = "No memory map"
            /\ UNCHANGED log
       ELSE IF impl = "WebDFU" /\ ~currentInterfaceSettings
       THEN /\ result' = "error" /\ err' = "Required selected interface"
            /\ UNCHANGED log
       ELSE \/ /\ log' = Append(log, Thrown(FirstRequest, 0, 0,
                                            IF plugged THEN TransferError ELSE DeviceDisconnected,
                                            "DOMException"))
               /\ result' = "error" /\ err' = "transfer"
            \/ /\ plugged /\ opened
               /\ log' = Append(log, Call(FirstRequest, 0, 0, 0))
               /\ result' = "running" /\ UNCHANGED err
    /\ pc' = IF result' = "running" THEN "engine" ELSE "done"
    /\ UNCHANGED <<inputs, openVars, processVars, dfuseVars, sessionVars, waitVars, ret, writeLocals, dfu_status, readLocals,
                   sleeps, shorts>>

\* a session after init(): nothing selected, the device attached
InitConnect ==
    /\ impl \in SessionImpls
    /\ op \in {"read", "write"} /\ pc = "session"
    /\ xfer_size = 1 /\ expected_size = 0 /\ manifestationTolerant = TRUE
    /\ max_size = Infinity /\ first_block = 0
    /\ InitLocals
    /\ NoDfuse /\ NoDfuseLocals /\ NoWait
    /\ NoSelection /\ NoDescriptors
    /\ opened = (impl = "DriverDFU")

NextConnect ==
    \/ ConnectCalled
    \/ Connect
    \/ Open
    \/ Close
    \/ Unplug
    \/ Dispatch
    \/ FirstTransfer

SpecConnect == InitConnect /\ [][NextConnect]_vars

(* -------------------------------- open --------------------------------- *)
\* the interfaces of a configuration in the order of configuration.interfaces,
\* each given by its bInterfaceNumber
Layouts == {<<0>>, <<0, 1>>, <<1>>}
ConfigurationValues == 1..MaxConfigurationValue
AlternateSettings == {0, 1}

\* configuration.interfaces right after the configuration was selected
Fresh(layout) ==
    [i \in 1..Len(layout) |-> [interfaceNumber |-> layout[i], claimed |-> FALSE, alternate |-> 0]]
\* every state the interfaces of a selected configuration can be in
InterfaceStates(layout) ==
    {f \in [1..Len(layout) -> [interfaceNumber : {0, 1}, claimed : BOOLEAN, alternate : AlternateSettings]] :
        \A i \in 1..Len(layout) : f[i].interfaceNumber = layout[i]}

\* this.device.configuration.interfaces[intfNumber]: the element at that
\* position of the array, 0 when the array is not that long
InterfaceAt(n) == IF n + 1 <= Len(device.interfaces) THEN n + 1 ELSE 0

\* what the device does with claimInterface(n) and selectAlternateInterface(n, a):
\* they act on the interface whose bInterfaceNumber is n
Claim(n) ==
    [i \in 1..Len(device.interfaces) |->
        IF device.interfaces[i].interfaceNumber = n
        THEN [device.interfaces[i] EXCEPT !.claimed = TRUE] ELSE device.interfaces[i]]
Alternate(n, a) ==
    [i \in 1..Len(device.interfaces) |->
        IF device.interfaces[i].interfaceNumber = n
        THEN [device.interfaces[i] EXCEPT !.alternate = a] ELSE device.interfaces[i]]

\* the client calls open()
OpenCalled ==
    /\ pc \in {"idle", "done"}
    /\ calls < MaxOpens
    /\ calls' = calls + 1
    /\ log' = Append(log, Call("open", 0, 0, 0))
    /\ pc' = "o_conf" /\ result' = "running" /\ err' = "none"
    /\ UNCHANGED <<inputs, openVars, processVars, dfuseVars, descriptorVars, waitVars, ret, writeLocals, dfu_status,
                   readLocals, sleeps, shorts,
                   descriptor, interfaceProtocol, intrf, currentInterfaceSettings, properties, driver, engine,
                   alternate, name, opened, claimed, plugged, events>>

\* what an action of open() leaves alone besides the device, the log and the outcome
OpenFrame ==
    UNCHANGED <<inputs, settings, processVars, dfuseVars, sessionVars, waitVars, ret, writeLocals, dfu_status,
                readLocals, sleeps, shorts>>

\* if (!this.device.configuration || configurationValue !== confValue)
\*   await this.device.selectConfiguration(confValue)
SelectConfiguration ==
    /\ pc = "o_conf"
    /\ IF device.configuration = 0 \/ device.configuration # settings.configurationValue
       THEN \/ /\ log' = Append(log, Call("selectConfiguration", settings.configurationValue, 0, 0))
               /\ device' = [device EXCEPT !.configuration = settings.configurationValue,
                                           !.interfaces = Fresh(device.layout)]
               /\ pc' = "o_claim" /\ UNCHANGED <<result, err>>
            \/ /\ log' = Append(log, Thrown("selectConfiguration", settings.configurationValue, 0, TransferError, "n/a"))
               /\ Fail("selectConfiguration failed")
               /\ UNCHANGED device
       ELSE /\ pc' = "o_claim" /\ UNCHANGED <<log, device, result, err>>
    /\ OpenFrame

\* if (!this.device.configuration.interfaces[intfNumber]?.claimed)
\*   await this.device.claimInterface(intfNumber)
ClaimInterface ==
    /\ pc = "o_claim"
    /\ LET n == settings.interfaceNumber
           i == InterfaceAt(n)
       IN IF i = 0 \/ ~device.interfaces[i].claimed
          THEN \/ /\ log' = Append(log, Call("claimInterface", n, 0, 0))
                  /\ device' = [device EXCEPT !.interfaces = Claim(n)]
                  /\ pc' = "o_alt" /\ UNCHANGED <<result, err>>
               \/ /\ log' = Append(log, Thrown("claimInterface", n, 0, TransferError, "n/a"))
                  /\ Fail("claimInterface failed")
                  /\ UNCHANGED device
          ELSE /\ pc' = "o_alt" /\ UNCHANGED <<log, device, result, err>>
    /\ OpenFrame

\* let intf = this.device.configuration.interfaces[intfNumber]
\* if (!intf?.alternate || intf.alternate.alternateSetting != altSetting)
\*   await this.device.selectAlternateInterface(intfNumber, altSetting)
SelectAlternateInterface ==
    /\ pc = "o_alt"
    /\ LET n == settings.interfaceNumber
           a == settings.alternateSetting
           i == InterfaceAt(n)
       IN IF i = 0 \/ device.interfaces[i].alternate # a
          THEN \/ /\ log' = Append(log, Call("selectAlternateInterface", n, a, 0))
                  /\ device' = [device EXCEPT !.interfaces = Alternate(n, a)]
                  /\ pc' = "done" /\ result' = "ok" /\ UNCHANGED err
               \/ /\ log' = Append(log, Thrown("selectAlternateInterface", n, a, TransferError, "n/a"))
                  /\ Fail("selectAlternateInterface failed")
                  /\ UNCHANGED device
          ELSE /\ pc' = "done" /\ result' = "ok" /\ UNCHANGED <<log, device, err>>
    /\ OpenFrame

\* a session that was given the settings of one interface of the device, and
\* the device with no configuration selected or with one selected and its
\* interfaces in any state
InitOpen ==
    /\ impl \in Impls /\ op = "open" /\ pc = "idle"
    /\ xfer_size = 1 /\ expected_size = 0 /\ manifestationTolerant = TRUE
    /\ max_size = Infinity /\ first_block = 0
    /\ InitLocals
    /\ NoDfuse /\ NoDfuseLocals /\ NoWait /\ NoDescriptors
    /\ descriptor = null /\ interfaceProtocol = 0 /\ intrf = TRUE
    /\ currentInterfaceSettings = TRUE
    /\ properties = undefined /\ driver = "none" /\ engine = "none"
    /\ alternate = 0 /\ name = 0
    /\ opened = TRUE /\ claimed = FALSE /\ plugged = TRUE /\ events = <<>> /\ calls = 0
    /\ process = <<>> /\ returned = FALSE
    /\ \E layout \in Layouts :
          /\ \/ device = [layout |-> layout, configuration |-> 0, interfaces |-> <<>>]
             \/ \E v \in ConfigurationValues, f \in InterfaceStates(layout) :
                   device = [layout |-> layout, configuration |-> v, interfaces |-> f]
          /\ settings \in {st \in [configurationValue : ConfigurationValues, interfaceNumber : {0, 1},
                                   alternateSetting : AlternateSettings] :
                              \E i \in 1..Len(layout) : layout[i] = st.interfaceNumber}

NextOpen ==
    \/ OpenCalled
    \/ SelectConfiguration
    \/ ClaimInterface
    \/ SelectAlternateInterface

SpecOpen == InitOpen /\ [][NextOpen]_vars

(* ----------------------- parseMemoryDescriptor -------------------------- *)
\* the descriptor strings followed: with and without "@", with and without
\* "/", with up to MaxBlocks blocks of up to MaxRuns runs in any order of
\* their addresses
Blocks == {Block(b, r) : b \in Bases, r \in UNION {[1..k -> Shapes] : k \in 0..MaxRuns}}
Descs ==
    {d \in [at : BOOLEAN, slash : BOOLEAN, blocks : UNION {[1..k -> Blocks] : k \in 0..MaxBlocks}] :
        d.blocks # <<>> => d.slash}

\* parseMemoryDescriptor(desc): throws on a string that is no DfuSe
\* descriptor, returns { name, segments } otherwise
ParseMemoryDescriptor ==
    /\ pc = "parse"
    /\ IF NotDfuSe(desc)
       THEN /\ Fail("Not a DfuSe memory descriptor")
            /\ UNCHANGED <<dfuseMemoryInfo, segments>>
       ELSE /\ dfuseMemoryInfo' = TRUE
            /\ segments' = parseMemoryDescriptor(desc)
            /\ pc' = "done" /\ result' = "ok" /\ UNCHANGED err
    /\ UNCHANGED <<inputs, openVars, processVars, dfuseStartAddress, dfuseLocals, sessionVars, waitVars, ret, writeLocals,
                   dfu_status, readLocals, log, sleeps, shorts>>

\* parseMemoryDescriptor(desc) has just been called
InitMemory ==
    /\ impl = "WebDFU" /\ op = "parse" /\ pc = "parse"
    /\ xfer_size = 1 /\ expected_size = 0 /\ manifestationTolerant = TRUE
    /\ max_size = Infinity /\ first_block = 0
    /\ InitLocals
    /\ NoDfuse /\ NoDfuseLocals /\ NoWait
    /\ NoSelection /\ opened = FALSE
    /\ desc \in Descs
    /\ configurations = <<>> /\ configurationValue = 0
    /\ remainingData = <<>> /\ descriptors = <<>>

NextMemory == ParseMemoryDescriptor

SpecMemory == InitMemory /\ [][NextMemory]_vars

(* ------------------------ parseSubDescriptors -------------------------- *)
DT_INTERFACE == 4
\* byteLength of an interface descriptor: parseInterfaceDescriptor reads bytes 0..8
InterfaceDescriptorLength == 9
\* values of the bytes of the buffers followed (bLength and bDescriptorType among them)
MaxByte == 4
\* the buffers followed are shorter than an interface descriptor, so none of
\* their records is parsed as one and inDfuIntf stays false
Buffers == UNION {[1..k -> 0..MaxByte] : k \in 0..MaxBuffer}

\* remainingData.buffer.slice(bLength)
Slice(data, begin) == SubSeq(data, begin + 1, Len(data))

\* one pass of while (remainingData.byteLength > 2): bLength and
\* bDescriptorType are bytes 0 and 1, descData is slice(0, bLength), which
\* ends where the buffer ends; the record is pushed and the walk goes on at
\* slice(bLength)
SubDescriptor ==
    /\ pc = "sub"
    /\ Len(remainingData) > 2
    /\ Len(descriptors) < MaxDescriptors
    /\ LET bLength == remainingData[1]
           bDescriptorType == remainingData[2]
           descData == SubSeq(remainingData, 1, Min(bLength, Len(remainingData)))
       IN IF bDescriptorType = DT_INTERFACE /\ Len(descData) < InterfaceDescriptorLength
          THEN /\ Fail("RangeError")
               /\ UNCHANGED <<remainingData, descriptors>>
          ELSE /\ descriptors' = Append(descriptors,
                                        [bLength |-> bLength, bDescriptorType |-> bDescriptorType,
                                         byteLength |-> Len(descData)])
               /\ remainingData' = Slice(remainingData, bLength)
               /\ UNCHANGED <<pc, result, err>>
    /\ UNCHANGED <<inputs, openVars, processVars, dfuseVars, waitVars, ret, writeLocals, dfu_status, readLocals, log, sleeps, shorts,
                   descriptor, interfaceProtocol, intrf, currentInterfaceSettings, properties, driver, engine,
                   alternate, name, opened, claimed, plugged, events, calls,
                   desc, configurations, configurationValue>>

\* remainingData.byteLength <= 2: return descriptors
SubDescriptorsReturn ==
    /\ pc = "sub"
    /\ ~(Len(remainingData) > 2)
    /\ pc' = "done" /\ result' = "ok"
    /\ UNCHANGED <<inputs, openVars, processVars, dfuseVars, sessionVars, waitVars, ret, err, writeLocals, dfu_status, readLocals,
                   log, sleeps, shorts>>

\* parseSubDescriptors(descriptorData) has just been called
InitSubDescriptors ==
    /\ impl = "WebDFU" /\ op = "sub" /\ pc = "sub"
    /\ xfer_size = 1 /\ expected_size = 0 /\ manifestationTolerant = TRUE
    /\ max_size = Infinity /\ first_block = 0
    /\ InitLocals
    /\ NoDfuse /\ NoDfuseLocals /\ NoWait
    /\ NoSelection /\ opened = FALSE
    /\ desc = [at |-> FALSE, slash |-> FALSE, blocks |-> <<>>]
    /\ configurations = <<>> /\ configurationValue = 0
    /\ remainingData \in Buffers /\ descriptors = <<>>

NextSubDescriptors ==
    \/ SubDescriptor
    \/ SubDescriptorsReturn

SpecSubDescriptors == InitSubDescriptors /\ [][NextSubDescriptors]_vars

(* ------------------- getDFUDescriptorProperties ------------------------ *)
\* a configuration descriptor as parseConfigurationDescriptor returns it: its
\* bConfigurationValue and the bcdDFUVersion of its DFU functional
\* descriptors, in the order of the bytes
ConfigurationDescriptors ==
    [bConfigurationValue : 1..MaxConfigurations,
     descriptors : UNION {[1..k -> DFUVersions] : k \in 0..MaxFunctional}]

\* the configurations of a device in the order of their index; their
\* bConfigurationValue differ
DeviceConfigurations ==
    {c \in UNION {[1..k -> ConfigurationDescriptors] : k \in 1..MaxConfigurations} :
        \A i, j \in 1..Len(c) : i # j => c[i].bConfigurationValue # c[j].bConfigurationValue}

\* for (let desc of configDesc.descriptors) if (functional) { funcDesc = desc; break; }
FirstFunctional(configDesc) ==
    IF configDesc.descriptors = <<>> THEN null ELSE configDesc.descriptors[1]

\* readConfigurationDescriptor(0): the first of the configurations
ConfigurationIndex == 1

\* getDFUDescriptorProperties(): the descriptor of the configuration with
\* index 0 is read and parsed; its functional descriptor is taken if its
\* bConfigurationValue is that of the selected configuration
getDFUDescriptorProperties ==
    LET configDesc == configurations[ConfigurationIndex] IN
    IF configDesc.bConfigurationValue = configurationValue
    THEN FirstFunctional(configDesc) ELSE null

\* connect: desc = await this.getDFUDescriptorProperties(), which may throw
\* with the transfer, and if (desc) this.properties = desc
GetProperties ==
    /\ pc = "properties"
    /\ \/ /\ Fail("getDFUDescriptorProperties failed")
          /\ UNCHANGED <<descriptor, properties>>
       \/ /\ descriptor' = getDFUDescriptorProperties
          /\ properties' = IF descriptor' # null THEN descriptor' ELSE properties
          /\ pc' = "done" /\ result' = "ok" /\ UNCHANGED err
    /\ UNCHANGED <<inputs, openVars, processVars, dfuseVars, descriptorVars, waitVars, ret, writeLocals, dfu_status, readLocals,
                   log, sleeps, shorts,
                   interfaceProtocol, intrf, currentInterfaceSettings, driver, engine,
                   alternate, name, opened, claimed, plugged, events, calls>>

\* connect has just been called on a device with one of its configurations selected
InitProperties ==
    /\ impl = "WebDFU" /\ op = "properties" /\ pc = "properties"
    /\ xfer_size = 1 /\ expected_size = 0 /\ manifestationTolerant = TRUE
    /\ max_size = Infinity /\ first_block = 0
    /\ InitLocals
    /\ NoDfuse /\ NoDfuseLocals /\ NoWait
    /\ NoSelection /\ opened = TRUE
    /\ desc = [at |-> FALSE, slash |-> FALSE, blocks |-> <<>>]
    /\ configurations \in DeviceConfigurations
    /\ configurationValue \in {configurations[i].bConfigurationValue : i \in 1..Len(configurations)}
    /\ remainingData = <<>> /\ descriptors = <<>>

NextProperties == GetProperties

SpecProperties == InitProperties /\ [][NextProperties]_vars

(* ----------------------------- poll_until ------------------------------ *)
\* poll_until(state_predicate) on its own: every GET_STATUS report and every
\* async_sleep it makes is kept in the log, the report with its state, status
\* and pollTimeout, the sleep with the duration handed to setTimeout

\* bwPollTimeout of a report, the three bytes after bStatus
PollTimeouts == 0..MaxPollTimeout

\* getStatus: pollTimeout = data.getUint32(1, true) & 0xffffff, the four bytes
\* from offset 1 read little-endian (bwPollTimeout and, on top, bState) cut to 24 bits
PollTimeout(bw, bState) == (bw + 16777216 * bState) % 16777216

\* the object getStatus resolves with
StatusReport(rep, bw) ==
    [status |-> rep.status, state |-> rep.state, pollTimeout |-> PollTimeout(bw, rep.state)]

\* log entries of poll_until: a GET_STATUS that resolved with a report, a
\* GET_STATUS that rejected, and an async_sleep of ms milliseconds
Reply(r) == [req |-> "GETSTATUS", status |-> r.status, state |-> r.state, ms |-> r.pollTimeout, res |-> 6]
NoReply == [req |-> "GETSTATUS", status |-> 0, state |-> 0, ms |-> 0, res |-> Failed]
Sleep(ms) == [req |-> "sleep", status |-> 0, state |-> 0, ms |-> ms, res |-> 0]

\* a sleep that does not look at the report
SleepDuration_None(r) == 0
\* await async_sleep(dfu_status.pollTimeout)
SleepDuration(r) == r.pollTimeout

\* dfu_status = await this.getStatus(), before the loop and at the end of each
\* iteration, followed by the test of the while
PollUntilGetStatus ==
    /\ pc = "p_status"
    /\ \/ \E rep \in Reports, bw \in PollTimeouts :
            LET r == StatusReport(rep, bw) IN
            /\ dfu_status' = r
            /\ log' = Append(log, Reply(r))
            /\ IF PollDone(ret, r.state)
                 THEN pc' = "done" /\ result' = "ok"
                 ELSE pc' = "p_sleep" /\ UNCHANGED result
            /\ UNCHANGED err
       \/ /\ log' = Append(log, NoReply)
          /\ Fail("DFU GETSTATUS failed")
          /\ UNCHANGED dfu_status
    /\ UNCHANGED <<inputs, openVars, processVars, sessionVars, waitVars, dfuseVars, ret, writeLocals, readLocals, sleeps, shorts>>

\* await async_sleep(dfu_status.pollTimeout) in the body of the while
PollUntilSleep ==
    /\ pc = "p_sleep" /\ sleeps < MaxPolls
    /\ log' = Append(log, Sleep(SleepDuration(dfu_status)))
    /\ pc' = "p_status" /\ sleeps' = sleeps + 1
    /\ UNCHANGED <<inputs, openVars, processVars, sessionVars, waitVars, dfuseVars, ret, result, err, writeLocals, dfu_status,
                   readLocals, shorts>>

\* poll_until has just been called with the predicate of poll_until_idle
\* (ret = "chunk": state == dfuDOWNLOAD_IDLE) or of the manifestation wait
\* (ret = "manifest": state == dfuIDLE || state == dfuMANIFEST_WAIT_RESET)
InitPoll ==
    /\ impl \in Impls /\ op = "poll" /\ pc = "p_status"
    /\ xfer_size = 1 /\ expected_size = 0 /\ manifestationTolerant = TRUE
    /\ max_size = Infinity /\ first_block = 0
    /\ ret \in {"chunk", "manifest"} /\ result = "running" /\ err = "none"
    /\ bytes_sent = 0 /\ transaction = 0 /\ bytes_written = 0
    /\ dfu_status = [status |-> STATUS_OK, state |-> dfuIDLE, pollTimeout |-> 0]
    /\ sleeps = 0 /\ shorts = 0
    /\ bytes_read = 0 /\ bytes_to_read = 0 /\ byteLength = 0 /\ state = dfuIDLE
    /\ log = <<>>
    /\ NoDfuse /\ NoDfuseLocals
    /\ NoSession /\ NoWait

NextPoll == PollUntilGetStatus \/ PollUntilSleep

SpecPoll == InitPoll /\ [][NextPoll]_vars

(* ------------------------- waitDisconnected ---------------------------- *)
\* the classes that carry waitDisconnected: "WebDFU" (src/unnamed/part_002;
\* WebDFUDriver of src/base.driver.ts and DriverDFU of src/unnamed/part_008 have
\* the same body) and "DFU" (src/dfu.ts)
WaitImpls == {"WebDFU", "DFU"}
\* event.device of a "disconnect" event: usbDevice or another device
Devices == {"this", "other"}

Event(d) == [req |-> "disconnect", device |-> d]

\* the executor of the promise waitDisconnected returns: arms the timer when
\* timeout > 0 and registers onDisconnect (WebDFU: only in the else branch)
WaitDisconnected ==
    /\ pc = "wait"
    /\ promise' = "pending"
    /\ timeoutID' = IF timeout > 0 THEN "armed" ELSE timeoutID
    /\ listener' = IF impl = "DFU" THEN TRUE ELSE ~(timeout > 0)
    /\ pc' = "waiting"
    /\ UNCHANGED <<inputs, openVars, processVars, dfuseVars, sessionVars, ret, result, err, writeLocals, dfu_status,
                   readLocals, log, sleeps, shorts, timeout, connected, disconnected, elapsed>>

\* time passes by one unit; an armed timer is not overrun
Tick ==
    /\ pc = "waiting"
    /\ elapsed < MaxTime
    /\ timeoutID = "armed" => elapsed < timeout
    /\ elapsed' = elapsed + 1
    /\ UNCHANGED <<inputs, openVars, processVars, dfuseVars, sessionVars, ret, result, err, pc, writeLocals, dfu_status,
                   readLocals, log, sleeps, shorts,
                   timeout, connected, disconnected, timeoutID, listener, promise>>

\* the flag the timer callback tests: device.connected (WebDFU) or
\* device.disconnected !== true (DFU)
StillConnected == IF impl = "DFU" THEN ~disconnected ELSE connected

\* the timer callback, run when the timeout has elapsed
OnTimeout ==
    /\ pc = "waiting"
    /\ timeoutID = "armed" /\ elapsed = timeout
    /\ timeoutID' = "fired"
    /\ listener' = FALSE
    /\ promise' = IF StillConnected /\ promise = "pending" THEN "rejected" ELSE promise
    /\ UNCHANGED <<inputs, openVars, processVars, dfuseVars, sessionVars, ret, result, err, pc, writeLocals, dfu_status,
                   readLocals, log, sleeps, shorts, timeout, connected, disconnected, elapsed>>

\* the transport reports a "disconnect" of device d; onDisconnect runs if it
\* is registered
OnDisconnect(d) ==
    /\ pc = "waiting"
    /\ Len(log) < MaxEvents
    /\ log' = Append(log, Event(d))
    /\ IF listener /\ d = "this"
       THEN /\ timeoutID' = IF timeout > 0 THEN "cleared" ELSE timeoutID
            /\ connected' = FALSE
            /\ disconnected' = IF impl = "DFU" THEN TRUE ELSE disconnected
            /\ listener' = FALSE
            /\ promise' = IF promise = "pending" THEN "resolved" ELSE promise
       ELSE UNCHANGED <<timeoutID, connected, disconnected, listener, promise>>
    /\ UNCHANGED <<inputs, openVars, processVars, dfuseVars, sessionVars, ret, result, err, pc, writeLocals, dfu_status,
                   readLocals, sleeps, shorts, timeout, elapsed>>

\* waitDisconnected(timeout) has just been called on a device object as constructed
InitWait ==
    /\ impl \in WaitImpls
    /\ op = "wait" /\ pc = "wait"
    /\ xfer_size = 1 /\ expected_size = 0 /\ manifestationTolerant = TRUE
    /\ max_size = Infinity /\ first_block = 0
    /\ InitLocals
    /\ NoDfuse /\ NoDfuseLocals /\ NoSession
    /\ timeout \in 0..MaxTimeout
    /\ connected = FALSE /\ disconnected = FALSE
    /\ timeoutID = "unset" /\ listener = FALSE /\ promise = "none"
    /\ elapsed = 0

NextWait ==
    \/ WaitDisconnected
    \/ Tick
    \/ OnTimeout
    \/ \E d \in Devices : OnDisconnect(d)

SpecWait == InitWait /\ [][NextWait]_vars

(* ------------------------- reading the log ----------------------------- *)
Last(s) == s[Len(s)]
Indexes(req) == {i \in 1..Len(log) : log[i].req = req}
Count(req) == Cardinality(Indexes(req))
Dnloads == SelectSeq(log, LAMBDA c : c.req = "DNLOAD")
Uploads == SelectSeq(log, LAMBDA c : c.req = "UPLOAD")
CeilDiv(n, c) == (n + c - 1) \div c
\* the device took every DNLOAD so far in full (none threw, none was cut short)
AcceptedInFull == \A i \in 1..Len(Dnloads) : Dnloads[i].res = Dnloads[i].len
\* do_write is past its final empty download
PastFinalDownload ==
    \/ pc \in {"m_once", "m_reset", "reset"}
    \/ pc \in {"poll", "sleep"} /\ ret = "manifest"
    \/ result = "ok"

\* position in log of the last req request, 0 when there is none
LastIndex(req) == LET found == Indexes(req) IN
                  IF found = {} THEN 0
                  ELSE CHOOSE i \in found : \A j \in found : j <= i
\* position in log of the final empty DNLOAD once the device has taken it, else 0
FinalDownload ==
    LET f == {i \in Indexes("DNLOAD") : log[i].len = 0 /\ log[i].res = 0} IN
    IF f = {} THEN 0 ELSE CHOOSE i \in f : TRUE
\* GET_STATUS requests issued after the final empty DNLOAD
ManifestPolls ==
    LET final == FinalDownload IN
    IF final = 0 THEN {} ELSE {i \in Indexes("GETSTATUS") : i > final}
\* dfu_status is the reply to a GET_STATUS of the manifestation phase
ManifestReported ==
    /\ ManifestPolls # {}
    /\ log[LastIndex("GETSTATUS")].res # Failed

(* ------------------------------ claims --------------------------------- *)
\* C1: in a plain DFU write of N bytes at chunk size C whose chunks the device
\* all accepts in full with status OK, the DNLOAD requests carry the block
\* numbers 0, 1, ... in order, the first ceil(N/C) of them carry data, and once
\* the write is past its final download there are exactly ceil(N/C) + 1 of
\* them, the last one empty (for N = 0: one empty DNLOAD at block 0).
C1_DownloadCount ==
    (op = "write" /\ AcceptedInFull) =>
        LET n == CeilDiv(expected_size, xfer_size)
            dnloads == Dnloads
        IN /\ Len(dnloads) <= n + 1
           /\ \A i \in 1..Len(dnloads) :
                 /\ dnloads[i].block = i - 1
                 /\ (dnloads[i].len = 0) <=> (i = n + 1)
           /\ PastFinalDownload => Len(dnloads) = n + 1

C1_Witness ==
    /\ op = "write" /\ result = "ok" /\ AcceptedInFull
    /\ expected_size = 3 /\ xfer_size = 2 /\ Len(Dnloads) = 3

\* C2: a DNLOAD with a block number above 0 is issued only when the last
\* transport call before it was a GET_STATUS that reported dfuDOWNLOAD_IDLE.
C2_NextBlockAfterIdle ==
    [][(log' # log /\ Last(log').req = "DNLOAD" /\ Last(log').block > 0) =>
          /\ Last(log).req = "GETSTATUS" /\ Last(log).res # Failed
          /\ dfu_status.state = dfuDOWNLOAD_IDLE]_vars

\* C3: when the report that ends the poll after a data chunk has a non-zero
\* status, do_write fails in that very step, and a do_write that has ended
\* issues no transport call any more: no retry of the chunk, no later chunk,
\* no empty block, no reset.
C3_ChunkStatusFails ==
    [][/\ (pc = "poll" /\ ret = "chunk" /\ log' # log /\ Last(log').res # Failed
            /\ PollDone(ret, dfu_status'.state) /\ dfu_status'.status # STATUS_OK)
          => (pc' = "done" /\ result' = "error" /\ Count("RESET")' = 0
              /\ Len(Dnloads)' = Len(Dnloads))
       /\ pc = "done" => log' = log]_vars

C3_Witness ==
    /\ op = "write" /\ result = "error" /\ err = "DFU DOWNLOAD failed"
    /\ dfu_status.state = dfuDOWNLOAD_IDLE /\ dfu_status.status # STATUS_OK
    /\ Len(Dnloads) = 2 /\ bytes_sent < expected_size

\* C4: with manifestationTolerant, everything do_write issues after the final
\* empty DNLOAD and before a reset is GET_STATUS; as long as the reported state
\* is none of dfuIDLE, dfuMANIFEST_WAIT_RESET, dfuERROR it goes on polling and
\* resets nothing; on such a state with a non-zero status the write does not
\* succeed (it ends in an error), with status OK it goes on to the device reset.
C4_ManifestPoll ==
    (op = "write" /\ manifestationTolerant) =>
        LET final == FinalDownload IN
        final > 0 =>
            /\ \A i \in (final + 1)..Len(log) :
                  log[i].req = "GETSTATUS" \/ \E j \in (final + 1)..i : log[j].req = "RESET"
            /\ ManifestReported =>
                  /\ ~PollDone("manifest", dfu_status.state) =>
                        /\ Count("RESET") = 0 /\ result = "running"
                        /\ pc \in {"poll", "sleep"}
                  /\ (PollDone("manifest", dfu_status.state) /\ dfu_status.status # STATUS_OK) =>
                        /\ result # "ok"
                        /\ pc \in {"done", "m_reset"}
                        /\ pc = "done" => result = "error"
                  /\ (PollDone("manifest", dfu_status.state) /\ dfu_status.status = STATUS_OK) =>
                        \/ pc \in {"reset", "m_reset"}
                        \/ Count("RESET") > 0

C4_Witness ==
    /\ op = "write" /\ manifestationTolerant /\ ManifestReported
    /\ Cardinality(ManifestPolls) = 2
    /\ dfu_status.state = dfuIDLE /\ dfu_status.status # STATUS_OK
    /\ result = "error"

\* C5: without manifestationTolerant, a do_write that reaches the device reset
\* has issued exactly one GET_STATUS between the final empty DNLOAD and the
\* reset, and when that GET_STATUS fails the write is not failed: the reset comes next.
C5_OneStatusThenReset ==
    (op = "write" /\ ~manifestationTolerant) =>
        /\ (pc = "reset" \/ Count("RESET") > 0) => Cardinality(ManifestPolls) = 1
        /\ (ManifestPolls # {} /\ Last(log).req = "GETSTATUS" /\ Last(log).res = Failed) =>
              (pc = "reset" /\ result = "running")

\* C6: a plain DFU write that returned successfully has issued the device
\* reset exactly once, after the final empty DNLOAD, as its last transport call.
C6_ResetExactlyOnce ==
    (op = "write" /\ result = "ok") =>
        /\ Count("RESET") = 1
        /\ Last(log).req = "RESET"
        /\ FinalDownload > 0 /\ FinalDownload < LastIndex("RESET")

\* C7: when the reset that ends do_write fails, the write completes
\* successfully if the error is one of device unavailable, device disconnected,
\* unable to reset, and fails otherwise.
C7_ResetErrorsSuppressed ==
    [][(pc = "reset" /\ log' # log /\ Last(log').res = Failed) =>
          /\ pc' = "done"
          /\ (result' = "ok") <=> (Last(log').error \in DeviceGone)
          /\ (result' = "error") <=> (Last(log').error \notin DeviceGone)]_vars

\* C8: the UPLOAD requests of do_read carry the block numbers first_block,
\* first_block + 1, ... in order; every reply but the last was as long as
\* asked for, and after a reply shorter than asked for do_read issues no
\* UPLOAD any more, so that the UPLOAD requests are one more than the full blocks.
C8_UploadBlocks ==
    op = "read" =>
        /\ \A i \in 1..Len(Uploads) : Uploads[i].block = first_block + i - 1
        /\ \A i \in 1..(Len(Uploads) - 1) : Uploads[i].res = Uploads[i].len
        /\ (Len(Uploads) > 0 /\ Last(Uploads).res # Failed /\ Last(Uploads).res < Last(Uploads).len) =>
              /\ pc = "done" /\ result = "ok"
              /\ Len(Uploads) = 1 + Cardinality({i \in 1..Len(Uploads) : Uploads[i].res = Uploads[i].len})

C8_Witness ==
    /\ op = "read" /\ result = "ok" /\ first_block = 2
    /\ Len(Uploads) = 3 /\ Last(Uploads).block = 4
    /\ Last(Uploads).res < Last(Uploads).len

\* C9: do_read issues ABORT only once, only after its last UPLOAD and only
\* with bytes_read = max_size; when its loop ends with bytes_read = max_size it
\* does run abort_to_idle; a read that ended with fewer bytes, or with
\* max_size = Infinity, has issued no ABORT.
C9_AbortIffMaxSize ==
    op = "read" =>
        /\ Count("ABORT") > 0 =>
              /\ Count("ABORT") = 1
              /\ bytes_read = max_size
              /\ LastIndex("UPLOAD") < LastIndex("ABORT")
        /\ (pc # "r_loop" /\ Len(Uploads) > 0 /\ Last(Uploads).res # Failed /\ bytes_read = max_size) =>
              (pc = "abort" \/ Count("ABORT") = 1)
        /\ max_size = Infinity => Count("ABORT") = 0
        /\ (result = "ok" /\ bytes_read # max_size) => Count("ABORT") = 0

C9_Witness ==
    /\ op = "read" /\ result = "ok" /\ max_size = 3 /\ bytes_read = 3
    /\ Count("ABORT") = 1 /\ Len(Uploads) = 2

\* C10: a do_read with max_size = 0 issues no UPLOAD request and returns an empty buffer.
C10_NoUploadAtZero ==
    (op = "read" /\ max_size = 0) =>
        /\ Count("UPLOAD") = 0
        /\ result = "ok" => bytes_read = 0

(* --------------------------- DfuSe claims ------------------------------ *)
\* a DNLOAD of the log that is the DfuSe command cmd
IsCommand(c, cmd) == c.req = "DNLOAD" /\ c.block = 0 /\ c.len = 5 /\ c.command = cmd
\* a DNLOAD of the log that carries data of a DfuSe write
IsData(c) == c.req = "DNLOAD" /\ c.block = 2
EraseSectors == SelectSeq(log, LAMBDA c : IsCommand(c, ERASE_SECTOR))
SetAddresses == SelectSeq(log, LAMBDA c : IsCommand(c, SET_ADDRESS))
DataDnloads == SelectSeq(log, LAMBDA c : IsData(c))

\* bytes of the input the device has taken before the i-th DNLOAD: the offset
\* in data of the first byte of a data DNLOAD at that position
RECURSIVE DataSentBefore(_)
DataSentBefore(i) ==
    IF i <= 1 THEN 0
    ELSE DataSentBefore(i - 1) + (IF IsData(Dnloads[i - 1]) THEN Dnloads[i - 1].res ELSE 0)

\* C11: in a DfuSe write, the DNLOAD request before every DNLOAD that carries
\* data is a SET_ADDRESS command whose address is the resolved start address
\* plus the offset in the input data of the first byte of that payload,
\* whatever bytesWritten values the device reports.
C11_SetAddressAtOffset ==
    op = "dfuse_write" =>
        \A i \in 1..Len(Dnloads) :
            IsData(Dnloads[i]) =>
                /\ i > 1
                /\ IsCommand(Dnloads[i - 1], SET_ADDRESS)
                /\ Dnloads[i - 1].param = startAddress + DataSentBefore(i)

\* C12: a DfuSe write issues no device reset; its empty DNLOAD (block 0) is the
\* last DNLOAD it issues, the DNLOAD request before it is SET_ADDRESS(start
\* address), which completed, so that every data chunk lies before that
\* SET_ADDRESS; all it issues after the empty DNLOAD is GET_STATUS, and it
\* returns only after such a GET_STATUS, on a report of dfuMANIFEST (or of
\* dfuERROR, which ends every poll), with all data sent.
C12_CommitSequence ==
    op = "dfuse_write" =>
        LET dnloads == Dnloads
            final == FinalDownload
        IN /\ Count("RESET") = 0
           /\ \A i \in 1..Len(dnloads) :
                 dnloads[i].len = 0 =>
                     /\ dnloads[i].block = 0
                     /\ i = Len(dnloads) /\ i > 1
                     /\ IsCommand(dnloads[i - 1], SET_ADDRESS)
                     /\ dnloads[i - 1].param = startAddress
                     /\ dnloads[i - 1].res # Failed
           /\ final > 0 =>
                 /\ log[final - 1].req = "GETSTATUS"
                 /\ \A i \in (final + 1)..Len(log) : log[i].req = "GETSTATUS"
           /\ result = "ok" =>
                 /\ final > 0 /\ final < Len(log)
                 /\ dfu_status.state \in {dfuMANIFEST, dfuERROR}
                 /\ bytes_sent >= expected_size

C12_Witness ==
    /\ op = "dfuse_write" /\ result = "ok"
    /\ Len(DataDnloads) = 2 /\ address # startAddress
    /\ dfu_status.state = dfuMANIFEST
    /\ Len(log) > FinalDownload + 1

\* C13: with dfuseStartAddress unset and a non-empty memory map, a DfuSe
\* write or read that is past its start address resolution uses the start of
\* the first segment as start address, whatever that start is (0 included),
\* and has not failed for want of a start address.
C13_InferredStart ==
    (/\ op \in {"dfuse_write", "dfuse_read"} /\ pc \notin {"dw_start", "dr_start"}
     /\ dfuseMemoryInfo /\ dfuseStartAddress = NaN /\ segments # <<>>)
    => /\ startAddress = segments[1].start
       /\ err \notin {"startAddress not found", "Unknown memory segments"}

\* C14: a DfuSe write with an explicitly set start address in no segment and
\* non-empty data has failed with the out-of-map error as soon as it is past
\* its start address resolution, with no transport call issued at all.
C14_OutOfMapFailsFirst ==
    (/\ op = "dfuse_write" /\ pc # "dw_start"
     /\ dfuseMemoryInfo /\ dfuseStartAddress # NaN
     /\ getDfuseSegment(dfuseStartAddress) = null /\ expected_size > 0)
    => /\ pc = "done" /\ result = "error"
       /\ err = "Start address outside of memory map bounds"
       /\ log = <<>>

C14_Witness ==
    /\ op = "dfuse_write" /\ pc = "done" /\ impl = "WebDFU"
    /\ segments # <<>> /\ dfuseStartAddress = MapEnd(segments) /\ expected_size > 0
    /\ err = "Start address outside of memory map bounds"

\* the write was given a start address inside the memory map, or none with a non-empty map
StartInsideMap ==
    /\ dfuseMemoryInfo
    /\ IF dfuseStartAddress = NaN THEN segments # <<>>
       ELSE getDfuseSegment(dfuseStartAddress) # null

\* some transport call of the operation failed or was answered with an error status
DeviceFailed ==
    \/ \E i \in 1..Len(log) : log[i].res = Failed
    \/ err \in {"Special DfuSe command failed", "DFU DOWNLOAD failed"}
    \/ err \in {"Error during DfuSe download", "Error during DfuSe manifestation"}

\* C15: a DfuSe write of zero bytes at a start address inside the memory map
\* issues no ERASE_SECTOR and no data DNLOAD, fails only when the device fails
\* a request, and has, once it returned, sent SET_ADDRESS(start address) and
\* then the empty DNLOAD at block 0.
C15_ZeroByteWrite ==
    (op = "dfuse_write" /\ expected_size = 0 /\ StartInsideMap) =>
        /\ Len(EraseSectors) = 0
        /\ Len(DataDnloads) = 0
        /\ result = "error" => DeviceFailed
        /\ result = "ok" =>
              /\ FinalDownload > 0
              /\ Len(SetAddresses) = 1 /\ SetAddresses[1].param = startAddress

\* start addresses of the sectors of erasable segments from the sector of
\* first to the sector of last
SectorsToErase(first, last) ==
    {a \in 0..MapEnd(segments) :
        /\ \E i \in 1..Len(segments) :
              /\ segments[i].erasable
              /\ segments[i].start <= a /\ a < segments[i].end
              /\ (a - segments[i].start) % segments[i].sectorSize = 0
        /\ \E i \in 1..Len(segments) :
              /\ segments[i].start <= first /\ first < segments[i].end
              /\ a >= first - ((first - segments[i].start) % segments[i].sectorSize)
        /\ a <= last}

\* C16: for a range [start, start + length) with length > 0 inside the (sorted,
\* contiguous) memory map, erase sends nothing but ERASE_SECTOR commands, at
\* strictly ascending addresses, each the start of a sector of an erasable
\* segment between the sector of start and the sector of start + length - 1;
\* once it has ended successfully it has sent one for every such sector.
C16_EraseSectors ==
    (/\ op = "erase" /\ expected_size > 0
     /\ getDfuseSegment(startAddress) # null
     /\ getDfuseSegment(startAddress + expected_size - 1) # null)
    => LET want == SectorsToErase(startAddress, startAddress + expected_size - 1) IN
       /\ \A i \in 1..Len(Dnloads) : IsCommand(Dnloads[i], ERASE_SECTOR)
       /\ \A i \in 1..Len(EraseSectors) : EraseSectors[i].param \in want
       /\ \A i \in 1..(Len(EraseSectors) - 1) : EraseSectors[i].param < EraseSectors[i + 1].param
       /\ result = "ok" => {EraseSectors[i].param : i \in 1..Len(EraseSectors)} = want
       /\ result = "error" => DeviceFailed

C16_Witness ==
    /\ op = "erase" /\ result = "ok"
    /\ Len(segments) = 2 /\ ~segments[1].erasable /\ segments[2].erasable
    /\ startAddress < segments[1].end /\ startAddress + expected_size - 1 > segments[2].start
    /\ Len(EraseSectors) = 2

\* position in log of the first req request
FirstIndex(req) == CHOOSE i \in Indexes(req) : \A j \in Indexes(req) : i <= j

\* what the log of a DfuSe read holds once an UPLOAD was issued: ahead of the
\* first UPLOAD one SET_ADDRESS(start address), issued right after a GETSTATE
\* (the first one or, after an ABORT, one of abortToIdle), its polls, the last
\* of them with status OK, then ABORT, and a GETSTATE right before the UPLOAD
UploadsPrepared ==
    Count("UPLOAD") > 0 =>
        LET u == FirstIndex("UPLOAD")
            a == CHOOSE i \in 1..Len(log) : IsCommand(log[i], SET_ADDRESS)
        IN /\ Len(SetAddresses) = 1 /\ Len(EraseSectors) = 0
           /\ a < u /\ log[a].param = startAddress /\ log[a].res # Failed
           /\ log[1].req = "GETSTATE"
           /\ log[a - 1].req = "GETSTATE" /\ log[a - 1].res # Failed
           /\ a > 2 => log[2].req = "ABORT"
           /\ \E k \in (a + 1)..(u - 1) :
                 /\ \A j \in (a + 1)..k : log[j].req = "GETSTATUS" /\ log[j].res # Failed
                 /\ log[k + 1].req = "ABORT" /\ log[k + 1].res # Failed
                 /\ log[k].status = STATUS_OK
           /\ log[u - 1].req = "GETSTATE" /\ log[u - 1].res # Failed

\* C17: a DfuSe read goes from its first GETSTATE to SET_ADDRESS when that
\* state is dfuIDLE and into abort_to_idle otherwise; SET_ADDRESS(start address)
\* is sent, and the first UPLOAD is issued, only with the last state read being
\* dfuIDLE; ahead of the first UPLOAD SET_ADDRESS has completed with status OK
\* and an abort_to_idle has followed it; the UPLOAD requests carry the block
\* numbers 2, 3, ... in order.
C17_ReadPrepared ==
    [][op = "dfuse_read" =>
          /\ (pc = "dr_getstate" /\ log' # log /\ Last(log').res # Failed) =>
                IF state' = dfuIDLE THEN pc' = "dr_setaddr" ELSE pc' = "abort"
          /\ (log' # log /\ Last(log').req = "UPLOAD" /\ Len(Uploads) = 0) =>
                state = dfuIDLE /\ pc = "r_loop"
          /\ (log' # log /\ IsCommand(Last(log'), SET_ADDRESS)) => state = dfuIDLE
          /\ UploadsPrepared'
          /\ \A i \in 1..Len(Uploads') : Uploads'[i].block = 2 + i - 1]_vars

C17_Witness ==
    /\ op = "dfuse_read" /\ result = "ok"
    /\ Len(Uploads) = 2 /\ Last(Uploads).block = 3
    /\ log[2].req = "ABORT" /\ Count("CLRSTATUS") = 1 /\ Count("ABORT") = 3

\* C18: once read or write has been dispatched after a successful connect
\* (the first call on the session), it
\* went to the DfuSe engine exactly when the functional descriptor was parsed
\* with DFUVersion 0x011A and the selected alternate has interfaceProtocol
\* 0x02, and to the plain DFU engine in every other case.
C18_EngineChoice ==
    (pc = "dispatched" /\ Connected /\ calls = 1) =>
        /\ engine \in {"DFU", "DfuSe"}
        /\ engine = "DfuSe" <=> (descriptor = 282 /\ interfaceProtocol = 2)

\* a "disconnect" event of this device is in the log
ThisDisconnected == \E k \in 1..Len(log) : log[k] = Event("this")

\* C19: waitDisconnected(timeout) with timeout > 0 does not stay pending once
\* the timeout has elapsed without a disconnect of this device: it has failed
\* with the timeout error.
C19_TimeoutRejects ==
    (pc = "waiting" /\ timeout > 0 /\ elapsed >= timeout /\ timeoutID # "armed" /\ ~ThisDisconnected)
        => promise = "rejected"

\* C20: a disconnect of this device reported while the wait is pending (for
\* timeout > 0: before the timeout fires) completes the wait successfully;
\* a disconnect of another device leaves it as it is.
C20_DisconnectResolves ==
    [][(pc = "waiting" /\ promise = "pending" /\ Len(log') = Len(log) + 1)
          => IF log'[Len(log')] = Event("this")
             THEN timeoutID # "fired" => promise' = "resolved"
             ELSE promise' = "pending"]_vars

(* -------------------------- session claims ----------------------------- *)
\* connect got past device.open() and getDFUDescriptorProperties() in this step
LookupReached ==
    /\ pc = "connect"
    /\ pc' = "open" \/ err' \notin {DeviceUnavailable, "getDFUDescriptorProperties failed"}

\* C21: a read or write invoked while the session is not connected (before a
\* successful connect, after close, after the device went away) has failed
\* and no control transfer was issued for it.
C21_NotConnectedFails ==
    (pc \in {"done", "engine"} /\ ~Connected) => (result = "error" /\ log = <<>>)

\* C22: connect(index) with no candidate at index fails with the
\* interface-not-found error, emits no event, claims nothing and leaves the
\* selected interface, the engine choice and the memory map as they were.
C22_InterfaceNotFound ==
    [][(LookupReached /\ ~intrf)
          => /\ result' = "error" /\ err' = "Interface not found"
             /\ events' = events /\ claimed' = claimed
             /\ UNCHANGED <<interfaceProtocol, currentInterfaceSettings, properties, driver,
                            dfuseMemoryInfo, segments>>]_vars

\* C27: connect to a plain DFU candidate (interfaceProtocol 0x01) whose
\* interface name does not start with "@" does not parse the name: it goes on
\* to open the interface.
C27_PlainNameConnects ==
    [][(LookupReached /\ intrf /\ alternate = 1 /\ name # 0 /\ NotDfuSe(InterfaceNames[name]))
          => pc' = "open"]_vars


(* ------------------------- descriptor claims --------------------------- *)
\* C23: the segments of every map parseMemoryDescriptor returns are in
\* ascending order and do not overlap: s1.end <= s2.start for s1 before s2.
C23_SegmentsAscending ==
    (pc = "done" /\ result = "ok" /\ op = "parse") =>
        \A i, j \in 1..Len(segments) : i < j => segments[i].end <= segments[j].start

\* C24: parseMemoryDescriptor returns a map only for a string that starts
\* with "@" and yields a segment; the map it returns has a segment.
C24_NoEmptyMap ==
    (pc = "done" /\ result = "ok" /\ op = "parse") => (desc.at /\ segments # <<>>)

\* C25: when the record parseSubDescriptors stands at declares bLength < 2 or
\* more bytes than the buffer has left, the walk fails there (so that every
\* pass that goes on has consumed at least 2 bytes, and the walk ends).
C25_MalformedRecordFails ==
    [][(pc = "sub" /\ Len(remainingData) > 2
           /\ (remainingData[1] < 2 \/ remainingData[1] > Len(remainingData)))
          => (pc' = "done" /\ result' = "error")]_vars

\* the configuration of the device whose bConfigurationValue is the selected one
SelectedConfiguration ==
    configurations[CHOOSE i \in 1..Len(configurations) :
                       configurations[i].bConfigurationValue = configurationValue]

\* C26: after connect has read the descriptor, the properties of the session
\* are those of the first DFU functional descriptor of the configuration whose
\* bConfigurationValue is the selected one, at whatever index it is.
C26_PropertiesOfSelected ==
    (pc = "done" /\ result = "ok" /\ op = "properties" /\ SelectedConfiguration.descriptors # <<>>)
        => properties = SelectedConfiguration.descriptors[1]

(* ------------------------- poll_until claims --------------------------- *)
\* the state of the report in log[k] ends the polling: it satisfies the
\* predicate poll_until was called with, or it is dfuERROR
EndsPolling(k) == StatePredicate(ret, log[k].state) \/ log[k].state = dfuERROR
\* log[k] is a GET_STATUS that resolved with a report
IsReport(k) == log[k].req = "GETSTATUS" /\ log[k].res # Failed

\* C28: poll_until(P) returns the first GET_STATUS report whose state satisfies
\* P or equals dfuERROR: no GET_STATUS (and nothing else) follows such a
\* report, every report received before the last one has a state that neither
\* satisfies P nor is dfuERROR, and when poll_until returns, what it returns
\* is the last report received and that report ends the polling
C28_FirstMatchingReport ==
    /\ \A k \in 1..Len(log) : (IsReport(k) /\ k < Len(log)) => ~EndsPolling(k)
    /\ (pc = "done" /\ result = "ok") =>
          /\ log # <<>> /\ IsReport(Len(log)) /\ EndsPolling(Len(log))
          /\ dfu_status.state = log[Len(log)].state
          /\ dfu_status.status = log[Len(log)].status
          /\ dfu_status.pollTimeout = log[Len(log)].ms
\* poll_until has returned a report satisfying the predicate after two sleeps
C28_Witness ==
    /\ pc = "done" /\ result = "ok" /\ sleeps = 2
    /\ StatePredicate(ret, dfu_status.state)

RECURSIVE SumMs(_, _)
\* the sum of ms over the entries of kind req among the first k of the log
SumMs(req, k) ==
    IF k = 0 THEN 0
    ELSE SumMs(req, k - 1) + (IF log[k].req = req /\ log[k].res # Failed THEN log[k].ms ELSE 0)

\* C29: the first thing poll_until does is a GET_STATUS; every sleep comes
\* right after a report and lasts exactly the pollTimeout of that report, and
\* is followed by one GET_STATUS and not by another sleep; every GET_STATUS but
\* the first comes right after a sleep; and when poll_until returns, the sum
\* of the sleeps is the sum of the pollTimeouts of all the reports minus that
\* of the last one
C29_SleepsFollowReports ==
    /\ log # <<>> => log[1].req = "GETSTATUS"
    /\ \A k \in 1..Len(log) :
          /\ log[k].req = "sleep" =>
                /\ k > 1 /\ IsReport(k - 1) /\ log[k].ms = log[k - 1].ms
                /\ k < Len(log) => log[k + 1].req = "GETSTATUS"
          /\ (log[k].req = "GETSTATUS" /\ k > 1) => log[k - 1].req = "sleep"
    /\ (pc = "done" /\ result = "ok") =>
          SumMs("sleep", Len(log)) = SumMs("GETSTATUS", Len(log)) - log[Len(log)].ms
\* poll_until has returned after sleeping 1 ms and then 2 ms
C29_Witness ==
    /\ pc = "done" /\ result = "ok" /\ Len(log) = 5
    /\ log[2].req = "sleep" /\ log[2].ms = 1
    /\ log[4].req = "sleep" /\ log[4].ms = 2
    /\ log[5].ms = 1

(* ------------------------- abortToIdle claims -------------------------- *)
\* the request of the last entry of a log: "none" for the empty log, and
\* "thrown" when that request failed
LastRequest(l) ==
    IF l = <<>> THEN "none" ELSE IF l[Len(l)].res = Failed THEN "thrown" ELSE l[Len(l)].req
\* this step issues request req, and the device answers it
Issues(req) == Len(log') = Len(log) + 1 /\ LastRequest(log') = req

\* C30: abortToIdle issues ABORT and then GETSTATE; it issues CLRSTATUS, and
\* after it a second GETSTATE, only when the first state read is dfuERROR,
\* hence at most one CLRSTATUS; the GETSTATE that is not followed by a
\* CLRSTATUS ends it, normally if and only if the state it read is dfuIDLE
\* and with "Failed to return to idle state after abort" otherwise
C30_AbortToIdleStep ==
    /\ (LastRequest(log) = "ABORT" /\ log' # log) => Len(log') = Len(log) + 1 /\ log'[Len(log')].req = "GETSTATE"
    /\ (LastRequest(log) = "CLRSTATUS" /\ log' # log) => Len(log') = Len(log) + 1 /\ log'[Len(log')].req = "GETSTATE"
    /\ Issues("GETSTATE") => LastRequest(log) \in {"ABORT", "CLRSTATUS"}
    /\ log' # log /\ log'[Len(log')].req = "CLRSTATUS" =>
          /\ LastRequest(log) = "GETSTATE" /\ state = dfuERROR
          /\ Len(log) >= 2 /\ log[Len(log) - 1].req = "ABORT"
    /\ (Issues("GETSTATE") /\ LastRequest(log) = "ABORT" /\ state' = dfuERROR) =>
          pc' = "clrstatus" /\ result' = "running"
    /\ (Issues("GETSTATE") /\ ~(LastRequest(log) = "ABORT" /\ state' = dfuERROR)) =>
          /\ pc' = "done"
          /\ result' = "ok" <=> state' = dfuIDLE
          /\ result' = "error" <=> state' # dfuIDLE
          /\ state' # dfuIDLE => err' = "Failed to return to idle state after abort"
    /\ (pc \in {"abort", "getstate1", "clrstatus", "getstate2"} /\ log' # log /\ LastRequest(log') = "thrown") =>
          pc' = "done" /\ result' = "error"
C30_AbortToIdle == [][C30_AbortToIdleStep]_vars
\* abortToIdle has returned normally after ABORT, GETSTATE reading dfuERROR,
\* CLRSTATUS and GETSTATE reading dfuIDLE
C30_Witness ==
    /\ op = "read" /\ pc = "done" /\ result = "ok" /\ state = dfuIDLE
    /\ Len(log) >= 4 /\ log[Len(log)].req = "GETSTATE" /\ log[Len(log) - 1].req = "CLRSTATUS"
    /\ log[Len(log) - 2].req = "GETSTATE" /\ log[Len(log) - 3].req = "ABORT"

(* ------------------------- dfuseCommand claims ------------------------- *)
\* c is the DNLOAD of a DfuSe command: a payload of the command byte and the
\* four bytes of its parameter
IsCommandDnload(c) == c.req = "DNLOAD" /\ c.len = 5
\* c is a GET_STATUS report received in the poll of a dfuseCommand
InCommandPoll(c) == c.req = "GETSTATUS" /\ c.res # Failed /\ "busy" \in DOMAIN c

\* C31: every DfuSe command is a DNLOAD of block 0 with SET_ADDRESS or
\* ERASE_SECTOR in it; the request after it is a GET_STATUS; a GET_STATUS of
\* that poll is followed by another one exactly when it reported dfuDNBUSY;
\* and when the report that ends the poll has a non-zero status, the
\* operation has failed and that report is the last request of the log: no
\* DfuSe command and no data transfer follows it.  Stated for the request e
\* a step adds after the last request so far
C31_CommandStep ==
    Len(log') # Len(log) =>
        /\ Len(log') = Len(log) + 1
        /\ LET e == Last(log')
               before == Last(log)
           IN /\ IsCommandDnload(e) => e.block = 0 /\ e.command \in {SET_ADDRESS, ERASE_SECTOR}
              /\ InCommandPoll(e) =>
                    /\ log # <<>>
                    /\ IsCommandDnload(before) \/ (InCommandPoll(before) /\ before.busy)
                    /\ ~e.busy =>
                          /\ "status" \in DOMAIN e
                          /\ e.status # STATUS_OK => (pc' = "done" /\ result' = "error")
              /\ (log # <<>> /\ IsCommandDnload(before) /\ before.res # Failed) =>
                    /\ e.req = "GETSTATUS"
                    /\ e.res # Failed => InCommandPoll(e)
              /\ (log # <<>> /\ InCommandPoll(before)) =>
                    IF before.busy THEN e.req = "GETSTATUS"
                    ELSE e.req # "GETSTATUS" /\ before.status = STATUS_OK
C31_CommandPolled == [][C31_CommandStep]_vars
\* a DfuSe write has erased a sector and then failed on a SET_ADDRESS whose
\* poll reported dfuDNBUSY before it reported a non-zero status
C31_Witness ==
    /\ op = "dfuse_write" /\ pc = "done" /\ result = "error"
    /\ Len(log) >= 3 /\ InCommandPoll(Last(log)) /\ ~Last(log).busy /\ Last(log).status # STATUS_OK
    /\ InCommandPoll(log[Len(log) - 1]) /\ log[Len(log) - 1].busy
    /\ IsCommandDnload(log[Len(log) - 2]) /\ log[Len(log) - 2].command = SET_ADDRESS
    /\ \E k \in 1..Len(log) : IsCommandDnload(log[k]) /\ log[k].command = ERASE_SECTOR

(* ----------------------------- erase claims ---------------------------- *)
\* the addresses of the ERASE_SECTOR commands sent so far, in the order sent
RECURSIVE Params(_)
Params(cs) == IF cs = <<>> THEN <<>> ELSE <<Head(cs).param>> \o Params(Tail(cs))
ErasedAddresses == Params(EraseSectors)
IsPrefix(p, q) == Len(p) <= Len(q) /\ \A i \in 1..Len(p) : p[i] = q[i]

\* C32 as stated: on the map [0x0..0x1000 e], [0x1000..0x1400 not e],
\* [0x1400..0x2400 e] with sectors of 0x400, a successful erase(0x0, 0x2000)
\* has sent ERASE_SECTOR at 0x0, 0x400, 0x800, 0xC00, 0x1400, 0x1800, 0x1C00
\* and 0x2000, in that order
C32_ExampleAddresses ==
    (op = "erase" /\ pc = "done" /\ result = "ok") =>
        ErasedAddresses = <<0, 1024, 2048, 3072, 5120, 6144, 7168, 8192>>
\* C32 amended: the erase sends ERASE_SECTOR at 0x0, 0x400, 0x800, 0xC00,
\* 0x1400, 0x1800 and 0x1C00, in that order, and at no other address: the
\* last byte of the range, 0x1FFF, lies in the sector at 0x1C00
ExampleAddresses == <<0, 1024, 2048, 3072, 5120, 6144, 7168>>
C32_ExampleAddresses_Amended ==
    /\ IsPrefix(ErasedAddresses, ExampleAddresses)
    /\ (op = "erase" /\ pc = "done" /\ result = "ok") => ErasedAddresses = ExampleAddresses
\* the erase of the example has ended successfully
C32_Witness ==
    /\ op = "erase" /\ pc = "done" /\ result = "ok"
    /\ segments = ExampleMap /\ startAddress = 0 /\ expected_size = 8192
    /\ Len(EraseSectors) = 7

\* sector_end(start + length - 1) - sector_start(start) of the erase under way
EraseTotal ==
    LET last == startAddress + expected_size - 1 IN
    getDfuseSectorEnd(last, getDfuseSegment(last))
        - getDfuseSectorStart(startAddress, getDfuseSegment(startAddress))

\* C33: in an erase over a contiguous memory map every progress event carries
\* the same total, sector_end(start + length - 1) - sector_start(start); done
\* lies between 0 and total and never decreases from one event to the next;
\* and the last event of an erase that succeeded has done = total
C33_EraseProgress ==
    op = "erase" =>
        /\ \A i \in 1..Len(progress) :
              /\ progress[i][2] = EraseTotal
              /\ 0 <= progress[i][1] /\ progress[i][1] <= progress[i][2]
              /\ i > 1 => progress[i - 1][1] <= progress[i][1]
        /\ (pc = "done" /\ result = "ok" /\ progress # <<>>) => Last(progress)[1] = EraseTotal
\* an erase has succeeded whose range starts in an erasable segment and ends
\* in the first sector of a longer segment that is not erasable
C33_Witness ==
    /\ op = "erase" /\ pc = "done" /\ result = "ok"
    /\ Len(segments) = 2 /\ segments[1].erasable /\ ~segments[2].erasable
    /\ segments[2].end - segments[2].start > segments[2].sectorSize
    /\ startAddress < segments[1].end
    /\ startAddress + expected_size - 1 = segments[2].start
    /\ Len(progress) >= 3 /\ Last(progress)[1] = EraseTotal

\* C37: every pass of the loop of erase moves addr up, so that the loop ends
\* once addr has reached endAddr, also over a map with a gap between two
\* segments inside the range; and no ERASE_SECTOR is sent for an address below
\* the sector that holds start
C37_EraseStep ==
    /\ (pc = "e_loop" /\ addr' # addr) => addr' > addr
    /\ (pc = "e_loop" /\ addr < endAddr /\ ~Erasable(segment')) => addr' > addr
    /\ \A i \in 1..Len(log') :
          IsCommand(log'[i], ERASE_SECTOR) =>
              log'[i].param >= getDfuseSectorStart(startAddress, getDfuseSegment(startAddress))
C37_EraseAdvances == [][C37_EraseStep]_vars

(* ------------------------------ open claims ---------------------------- *)
\* position in the open ritual of a transport call
Rank(req) ==
    CASE req = "selectConfiguration" -> 1
      [] req = "claimInterface" -> 2
      [] req = "selectAlternateInterface" -> 3
      [] OTHER -> 0
\* the interface of the selected configuration that carries bInterfaceNumber n
Numbered(n) == {i \in 1..Len(device.interfaces) : device.interfaces[i].interfaceNumber = n}
\* the device is already in the state a step of open() aims at
ConfigurationSelected == device.configuration = settings.configurationValue
InterfaceClaimed == \E i \in Numbered(settings.interfaceNumber) : device.interfaces[i].claimed
AlternateSelected ==
    \E i \in Numbered(settings.interfaceNumber) : device.interfaces[i].alternate = settings.alternateSetting

\* the open() under way follows one that returned normally: the request just
\* before its entry in the log did not throw
AfterSuccessfulOpen ==
    LET k == LastIndex("open") IN k > 1 /\ log[k - 1].res # Failed

\* C34: within one open() the transport calls come in the order
\* selectConfiguration, claimInterface, selectAlternateInterface, each at most
\* once; each step issues its call exactly when the device is not yet in the
\* state the step aims at; hence an open() that follows a successful one
\* issues no transport call
C34_OpenStep ==
    /\ \A k \in 2..Len(log') : Rank(log'[k].req) > 0 => Rank(log'[k - 1].req) < Rank(log'[k].req)
    /\ pc = "o_conf" => (log' # log <=> ~ConfigurationSelected)
    /\ pc = "o_claim" => (log' # log <=> ~InterfaceClaimed)
    /\ pc = "o_alt" => (log' # log <=> ~AlternateSelected)
    /\ (pc \in {"o_conf", "o_claim", "o_alt"} /\ AfterSuccessfulOpen) => log' = log
C34_OpenRitual == [][C34_OpenStep]_vars

(* ---------------------- read() and write() processes ------------------- *)
\* read(xferSize, maxSize) and write(xfer_size, data, manifestationTolerant)
\* of the class WebDFU of src/unnamed/part_002 hand out a process object and
\* emit on it.  The engines are followed from emit to emit and from await to
\* await: an await resolves or rejects as the device decides.

\* process.events.emit(e) on the events p: nanoevents calls the listeners
\* registered so far, and the caller registers its own once it holds the
\* process (held)
Emits(p, e, held) == Append(p, [event |-> e, heard |-> held])

TerminalEvents == {"end", "error"}

\* the engine promise rejects with tag
Rejected(tag) == pc' = "p_rejected" /\ err' = tag

\* write(): } catch (error) { process.events.on("error", error) } taken for the
\* rejection of the engine promise
Settle_Listened(p, ok) == IF ok THEN Emits(p, "end", TRUE) ELSE p

\* result.then(() => process.events.emit("end"))
\*       .catch((error) => process.events.emit("error", error))
Settle(p, ok) == Emits(p, IF ok THEN "end" ELSE "error", TRUE)

\* what do_dfuse_read throws before its first await, "none" if nothing
DfuseReadRefusal ==
    IF ~dfuseMemoryInfo THEN "Unknown a DfuSe memory info"
    ELSE IF dfuseStartAddress = NaN /\ Falsy(IF segments = <<>> THEN undefined ELSE segments[1].start)
    THEN "Unknown memory segments"
    ELSE "none"

\* what do_dfuse_write throws or rejects with between emit("erase/start") and
\* its call of erase, "none" if nothing
DfuseWriteRefusal ==
    IF dfuseStartAddress = NaN
    THEN IF Falsy(IF segments = <<>> THEN undefined ELSE segments[1].start)
         THEN "startAddress not found" ELSE "none"
    ELSE IF getDfuseSegment(dfuseStartAddress) = null /\ expected_size # 0
    THEN "Start address outside of memory map bounds"
    ELSE IF Falsy(dfuseStartAddress) THEN "startAddress not found"
    ELSE "none"

\* what an action of a process leaves alone
ProcessFrame ==
    UNCHANGED <<inputs, openVars, sessionVars, waitVars, dfuseVars, ret, transaction, bytes_written,
                dfu_status, bytes_to_read, byteLength, state, log, sleeps, shorts>>

\* read(): the engine is called at once and runs up to its first await, then
\* the process is returned
ReadCalled ==
    /\ op = "read" /\ pc = "idle"
    /\ IF Type_WebDFU = WebDFUType.SDFUse
       THEN /\ process' = process
            /\ IF DfuseReadRefusal # "none"
               THEN Rejected(DfuseReadRefusal)
               ELSE pc' = "p_prepare" /\ UNCHANGED err
       ELSE /\ process' = Emits(process, "process", FALSE)
            /\ pc' = "p_upload" /\ UNCHANGED err
    /\ returned' = TRUE
    /\ UNCHANGED <<result, bytes_sent, bytes_read>>
    /\ ProcessFrame

\* do_dfuse_read: getState, abortToIdle, dfuseCommand(SET_ADDRESS), abortToIdle,
\* then do_read, which emits ("process", 0)
ReadPrepared ==
    /\ op = "read" /\ pc = "p_prepare"
    /\ \/ Rejected(TransferError) /\ process' = process
       \/ /\ process' = Emits(process, "process", returned)
          /\ pc' = "p_upload" /\ UNCHANGED err
    /\ UNCHANGED <<result, returned, bytes_sent, bytes_read>>
    /\ ProcessFrame

\* one pass of the loop of do_read with xfer_size = 1: the upload, the
\* ("process", bytes_read, max_size) event and the loop test
Uploaded ==
    /\ op = "read" /\ pc = "p_upload"
    /\ \/ Rejected(TransferError) /\ UNCHANGED <<process, bytes_read>>
       \/ \E n \in {0, 1} :
             LET want == IF max_size = Infinity THEN 1 ELSE Min(1, max_size - bytes_read)
                 read == bytes_read + Min(n, want)
                 more == (max_size = Infinity \/ read < max_size) /\ Min(n, want) = want
             IN /\ bytes_read' = read
                /\ process' = Emits(process, "process", returned)
                /\ more => Len(process) < MaxProcessEvents
                /\ pc' = IF more THEN "p_upload"
                         ELSE IF read = max_size THEN "p_abort" ELSE "p_resolved"
                /\ UNCHANGED err
    /\ UNCHANGED <<result, returned, bytes_sent>>
    /\ ProcessFrame

\* if (bytes_read == max_size) await this.abortToIdle()
Aborted ==
    /\ op = "read" /\ pc = "p_abort"
    /\ \/ Rejected("Failed to return to idle state after abort")
       \/ pc' = "p_resolved" /\ UNCHANGED err
    /\ UNCHANGED <<result, process, returned, bytes_sent, bytes_read>>
    /\ ProcessFrame

\* write(): the process is returned, the engine starts from setTimeout(..., 0)
WriteCalled ==
    /\ op = "write" /\ pc = "idle"
    /\ returned' = TRUE /\ pc' = "p_timer"
    /\ UNCHANGED <<result, err, process, bytes_sent, bytes_read>>
    /\ ProcessFrame

\* the timer callback: do_write up to its first await, or do_dfuse_write up to
\* the promise around erase.  erase() runs up to its first await before
\* do_dfuse_write registers its listeners, so what it emits until then is not
\* passed on
TimerFired ==
    /\ op = "write" /\ pc = "p_timer"
    /\ IF Type_WebDFU = WebDFUType.SDFUse
       THEN IF ~dfuseMemoryInfo
            THEN Rejected("No memory map available") /\ process' = process
            ELSE /\ process' = Emits(process, "erase/start", returned)
                 /\ IF DfuseWriteRefusal # "none"
                    THEN Rejected(DfuseWriteRefusal)
                    ELSE pc' = "p_erase" /\ UNCHANGED err
       ELSE /\ process' = Emits(Emits(process, "write/start", returned), "write/process", returned)
            /\ pc' = IF bytes_sent < expected_size THEN "p_chunk" ELSE "p_final"
            /\ UNCHANGED err
    /\ UNCHANGED <<result, returned, bytes_sent, bytes_read>>
    /\ ProcessFrame

\* the erase process under do_dfuse_write emits "process", "error" or "end":
\*   ev.events.on("process", (...args) => process.events.emit("erase/process", ...args))
\*   ev.events.on("error", reject)
\*   ev.events.on("end", () => { process.events.emit("erase/end"); resolve() })
\* and after the promise process.events.emit("write/start")
Erased ==
    /\ op = "write" /\ pc = "p_erase"
    /\ \/ /\ Len(process) < MaxProcessEvents
          /\ process' = Emits(process, "erase/process", returned)
          /\ UNCHANGED <<pc, err>>
       \/ Rejected("Special DfuSe command failed") /\ process' = process
       \/ /\ process' = LET started == Emits(Emits(process, "erase/end", returned), "write/start", returned)
                        IN IF bytes_sent < expected_size THEN started
                           ELSE Emits(started, "write/end", returned)
          /\ pc' = IF bytes_sent < expected_size THEN "p_chunk" ELSE "p_manifest"
          /\ UNCHANGED err
    /\ UNCHANGED <<result, returned, bytes_sent, bytes_read>>
    /\ ProcessFrame

\* one pass of the chunk loop of do_write or do_dfuse_write with xfer_size = 1:
\* the awaits reject, or the status is not OK, or bytes_sent += bytes_written
\* and ("write/process", bytes_sent, expected_size) is emitted; do_dfuse_write
\* emits "write/end" right after its loop
Chunked ==
    /\ op = "write" /\ pc = "p_chunk"
    /\ \/ Rejected("Error during download") /\ UNCHANGED <<process, bytes_sent>>
       \/ Rejected("DFU DOWNLOAD failed") /\ UNCHANGED <<process, bytes_sent>>
       \/ \E w \in {0, 1} :
             LET sent == bytes_sent + w
                 more == sent < expected_size
                 progressed == Emits(process, "write/process", returned)
             IN /\ bytes_sent' = sent
                /\ more => Len(process) < MaxProcessEvents
                /\ process' = IF ~more /\ Type_WebDFU = WebDFUType.SDFUse
                              THEN Emits(progressed, "write/end", returned) ELSE progressed
                /\ pc' = IF more THEN "p_chunk"
                         ELSE IF Type_WebDFU = WebDFUType.SDFUse THEN "p_manifest" ELSE "p_final"
                /\ UNCHANGED err
    /\ UNCHANGED <<result, returned, bytes_read>>
    /\ ProcessFrame

\* do_write: await this.download(new ArrayBuffer(0), transaction++), then
\* process.events.emit("write/end", bytes_sent)
FinalDownloaded ==
    /\ op = "write" /\ pc = "p_final"
    /\ \/ Rejected("Error during final DFU download") /\ process' = process
       \/ /\ process' = Emits(process, "write/end", returned)
          /\ pc' = "p_manifest" /\ UNCHANGED err
    /\ UNCHANGED <<result, returned, bytes_sent, bytes_read>>
    /\ ProcessFrame

\* the rest of the engine emits nothing: the manifestation of do_write, or the
\* commit and the last poll_until of do_dfuse_write
Manifested ==
    /\ op = "write" /\ pc = "p_manifest"
    /\ \/ Rejected("Error during manifestation")
       \/ pc' = "p_resolved" /\ UNCHANGED err
    /\ UNCHANGED <<result, process, returned, bytes_sent, bytes_read>>
    /\ ProcessFrame

\* the callbacks read() and write() chained on the engine promise
Settled ==
    /\ pc \in {"p_resolved", "p_rejected"}
    /\ process' = Settle(process, pc = "p_resolved")
    /\ result' = IF pc = "p_resolved" THEN "ok" ELSE "error"
    /\ pc' = "done"
    /\ UNCHANGED <<err, returned, bytes_sent, bytes_read>>
    /\ ProcessFrame

\* read(1, max_size) or write(1, data, true) is about to be called on a
\* session of either type, with or without a memory map
InitProcess ==
    /\ impl = "WebDFU" /\ op \in {"read", "write"} /\ pc = "idle"
    /\ xfer_size = 1 /\ expected_size \in 0..MaxDfuseData
    /\ manifestationTolerant = TRUE
    /\ max_size \in {Infinity} \cup (0..MaxDfuseData) /\ first_block = 0
    /\ InitLocals /\ NoDfuseLocals /\ NoWait /\ NoDescriptors
    /\ \/ NoDfuse
       \/ /\ dfuseMemoryInfo = TRUE
          /\ segments \in MemoryMaps(1)
          /\ dfuseStartAddress \in StartAddresses(segments)
    /\ descriptor = null /\ intrf = TRUE /\ currentInterfaceSettings = TRUE
    /\ properties = 282 /\ interfaceProtocol \in {1, 2}
    /\ driver = "none" /\ engine = "none" /\ alternate = 0 /\ name = 0
    /\ opened = TRUE /\ claimed = TRUE /\ plugged = TRUE /\ events = <<>> /\ calls = 0
    /\ device = [layout |-> <<>>, configuration |-> 0, interfaces |-> <<>>]
    /\ settings = [configurationValue |-> 0, interfaceNumber |-> 0, alternateSetting |-> 0]
    /\ process = <<>> /\ returned = FALSE

NextProcess ==
    \/ ReadCalled
    \/ ReadPrepared
    \/ Uploaded
    \/ Aborted
    \/ WriteCalled
    \/ TimerFired
    \/ Erased
    \/ Chunked
    \/ FinalDownloaded
    \/ Manifested
    \/ Settled

SpecProcess == InitProcess /\ [][NextProcess]_vars

(* ----------------------------- process claims -------------------------- *)
\* the positions of the terminal events among the events of the process
Terminals == {i \in 1..Len(process) : process[i].event \in TerminalEvents}

\* C35: a read() or write() process carries at most one terminal event, which
\* is its last event and reaches the caller's listeners; once the operation
\* has finished the process carries exactly one, "end" if the engine promise
\* resolved and "error" if it rejected, so that no failure goes without its
\* "error" event
C35_OneTerminalEvent ==
    op \in {"read", "write"} =>
        /\ Cardinality(Terminals) <= 1
        /\ \A i \in Terminals : i = Len(process) /\ process[i].heard
        /\ pc \in {"p_resolved", "p_rejected"} => Terminals = {}
        /\ pc = "done" =>
              /\ Cardinality(Terminals) = 1
              /\ result = "ok" <=> Last(process).event = "end"
              /\ result = "error" <=> Last(process).event = "error"
              /\ result = "error" <=> err # "none"
\* a DfuSe write has failed in its erase after progress had been passed on
C35_Witness ==
    /\ op = "write" /\ pc = "done" /\ result = "error"
    /\ Len(process) >= 3
    /\ process[1].event = "erase/start"
    /\ process[Len(process) - 1].event = "erase/process"
    /\ Last(process).event = "error"

(* --------------------------- chunk loop claims ------------------------- *)
\* C36: every pass of the chunk loop of do_write that comes back to the loop
\* head has moved bytes_sent up, whatever bytesWritten the device reported for
\* the DNLOAD, so that the loop ends after at most expected_size passes
C36_ChunkStep == (op = "write" /\ pc # "w_loop" /\ pc' = "w_loop") => bytes_sent' > bytes_sent
C36_ChunkLoopAdvances == [][C36_ChunkStep]_vars

(* ------------------------ DfuSe manifestation claims ------------------- *)
\* C38: a do_dfuse_write that has returned normally ended its last poll on a
\* report of state dfuMANIFEST with status OK; a last report of dfuERROR or of
\* a status other than OK makes the write fail
C38_CommitChecked ==
    (op = "dfuse_write" /\ pc = "done" /\ result = "ok") =>
        dfu_status.state = dfuMANIFEST /\ dfu_status.status = STATUS_OK

\* the bytes the device has taken from the data DNLOADs among the first k
\* entries of the log, each the first bytesWritten bytes of its payload, in
\* the order of the requests
RECURSIVE AcceptedBytes(_)
AcceptedBytes(k) ==
    IF k = 0 THEN <<>>
    ELSE AcceptedBytes(k - 1) \o
         (IF "payload" \in DOMAIN log[k] /\ log[k].res # Failed
          THEN SubSeq(log[k].payload, 1, log[k].res) ELSE <<>>)

\* C39: every data DNLOAD of do_write carries between 1 and xfer_size bytes,
\* and once do_write has returned normally the bytes the device took from
\* them, put together in request order, are the input data
C39_AcceptedIsInput ==
    op = "write" =>
        /\ \A k \in 1..Len(log) :
              "payload" \in DOMAIN log[k] =>
                  /\ 1 <= Len(log[k].payload) /\ Len(log[k].payload) <= xfer_size
                  /\ Len(log[k].payload) = log[k].len
        /\ (pc = "done" /\ result = "ok") => AcceptedBytes(Len(log)) = Data
\* a write of three bytes has succeeded although the device took only part of
\* one chunk of two bytes
C39_Witness ==
    /\ op = "write" /\ pc = "done" /\ result = "ok"
    /\ expected_size = 3 /\ xfer_size = 2
    /\ \E k \in 1..Len(log) :
          "payload" \in DOMAIN log[k] /\ log[k].len = 2 /\ log[k].res = 1

(* --------------------------- reconnect claims -------------------------- *)
\* C40: when a connect succeeds, the properties of the session are those of
\* the functional descriptor this connect has read (none if the configuration
\* yields none) and, in the class that keeps the memory map itself, the map is
\* the one parsed from the interface name of this candidate (none if the
\* candidate has no name): nothing of an earlier connect stays in effect
C40_ConnectStep ==
    (pc = "open" /\ result' = "ok") =>
        /\ properties' = IF descriptor # null THEN descriptor ELSE undefined
        /\ impl = "WebDFU" =>
              IF name # 0
              THEN dfuseMemoryInfo' /\ segments' = parseMemoryDescriptor(InterfaceNames[name])
              ELSE ~dfuseMemoryInfo' /\ segments' = <<>>
C40_LatestConnect == [][C40_ConnectStep]_vars

====
